---------------------------- MODULE Spec2Model ----------------------------
(***************************************************************************)
(* gcinvoice: the tax/discount resolver (Gcinvoice._calcTaxDiscount), the  *)
(* entry loop of Gcinvoice.parse and the YAPTU template interpreter        *)
(* (_copier.copyblock), as state machines.                                 *)
(*                                                                         *)
(* Amounts are Python Decimals.  The module never sets the decimal         *)
(* context, so every +, -, * and / rounds its exact result to 28           *)
(* significant digits, half to even.  A Decimal is modelled by its numeric *)
(* value in canonical form [neg, dig, exp]: sign, the coefficient's        *)
(* decimal digits (most significant first, no leading and no trailing      *)
(* zero, <<>> for zero) and the exponent of ten.  Python's == on Decimals  *)
(* is numeric, so equality of canonical forms is Python's equality.        *)
(***************************************************************************)
EXTENDS Integers, Sequences, FiniteSets, TLC

\* significant digits of the default decimal context
Prec == 28

(*************************** natural numbers *******************************)
\* digit sequences, most significant digit first

Zeros(k) == [i \in 1..k |-> 0]

StripLead(s) ==
    IF \A i \in 1..Len(s) : s[i] = 0 THEN <<>>
    ELSE LET k == CHOOSE i \in 1..Len(s) : s[i] # 0 /\ \A j \in 1..(i - 1) : s[j] = 0
         IN  SubSeq(s, k, Len(s))

StripTrail(s) ==
    IF \A i \in 1..Len(s) : s[i] = 0 THEN <<>>
    ELSE LET k == CHOOSE i \in 1..Len(s) : s[i] # 0 /\ \A j \in (i + 1)..Len(s) : s[j] = 0
         IN  SubSeq(s, 1, k)

TrailZeros(s) == Len(s) - Len(StripTrail(s))

PadLeft(s, n) == Zeros(n - Len(s)) \o s

\* -1, 0, 1 as a < b, a = b, a > b; a and b without leading zeros
CmpN(a, b) ==
    IF Len(a) < Len(b) THEN -1
    ELSE IF Len(a) > Len(b) THEN 1
    ELSE IF a = b THEN 0
    ELSE LET k == CHOOSE i \in 1..Len(a) : a[i] # b[i] /\ \A j \in 1..(i - 1) : a[j] = b[j]
         IN  IF a[k] < b[k] THEN -1 ELSE 1

\* the loops below hand their state on evaluated (st # st evaluates st): TLC passes
\* arguments unevaluated, and a chain of pending steps would exhaust its stack

\* the digits k..1 of pa + pb, from the right, with carry c; out: the digits so far
RECURSIVE AddCarry(_, _, _, _, _)
AddCarry(pa, pb, k, c, out) ==
    IF k = 0 \/ c # c \/ out # out
    THEN IF c = 0 THEN out ELSE <<c>> \o out
    ELSE AddCarry(pa, pb, k - 1, (pa[k] + pb[k] + c) \div 10,
                  <<(pa[k] + pb[k] + c) % 10>> \o out)

AddN(a, b) ==
    LET n == IF Len(a) > Len(b) THEN Len(a) ELSE Len(b)
    IN  AddCarry(PadLeft(a, n), PadLeft(b, n), n, 0, <<>>)

\* the digits k..1 of a - pb, from the right, with borrow c
RECURSIVE SubBorrow(_, _, _, _, _)
SubBorrow(a, pb, k, c, out) ==
    IF k = 0 \/ c # c \/ out # out
    THEN out
    ELSE SubBorrow(a, pb, k - 1, IF a[k] - pb[k] - c < 0 THEN 1 ELSE 0,
                   <<(a[k] - pb[k] - c + 10) % 10>> \o out)

\* a - b for a >= b
SubN(a, b) == StripLead(SubBorrow(a, PadLeft(b, Len(a)), Len(a), 0, <<>>))

\* the digits k..1 of a times the digit d, from the right, with carry c
RECURSIVE MulCarry(_, _, _, _, _)
MulCarry(a, d, k, c, out) ==
    IF k = 0 \/ c # c \/ out # out
    THEN IF c = 0 THEN out ELSE <<c>> \o out
    ELSE MulCarry(a, d, k - 1, (a[k] * d + c) \div 10, <<(a[k] * d + c) % 10>> \o out)

\* a times the digit d
MulDigit(a, d) == IF d = 0 THEN <<>> ELSE MulCarry(a, d, Len(a), 0, <<>>)

\* x times the digits i.. of y, acc being x times the digits before them
RECURSIVE MulAcc(_, _, _, _)
MulAcc(x, y, i, acc) ==
    IF i > Len(y) \/ acc # acc THEN acc
    ELSE MulAcc(x, y, i + 1, AddN(StripLead(Append(acc, 0)), MulDigit(x, y[i])))

\* schoolbook product, one digit of the shorter factor at a time
MulN(a, b) ==
    IF Len(a) >= Len(b) THEN MulAcc(a, b, 1, <<>>) ELSE MulAcc(b, a, 1, <<>>)

\* how often d goes into r, for r < 10 * d
RECURSIVE Fits(_, _, _)
Fits(r, d, k) ==
    IF CmpN(r, d) < 0 THEN [q |-> k, r |-> r]
    ELSE Fits(SubN(r, d), d, k + 1)

\* long division from digit i of num on; st: quotient and remainder so far
RECURSIVE DivFrom(_, _, _, _)
DivFrom(num, d, i, st) ==
    IF i > Len(num) \/ st # st THEN st
    ELSE DivFrom(num, d, i + 1,
                 [q |-> StripLead(Append(st.q, Fits(StripLead(Append(st.r, num[i])), d, 0).q)),
                  r |-> Fits(StripLead(Append(st.r, num[i])), d, 0).r])

\* quotient and remainder of num by d, d # 0
DivModN(num, d) == DivFrom(num, d, 1, [q |-> <<>>, r |-> <<>>])

RECURSIVE NatDigits(_)
NatDigits(n) == IF n = 0 THEN <<>> ELSE Append(NatDigits(n \div 10), n % 10)

(******************************* Decimal ***********************************)

\* the canonical form of (-1)^neg * dig * 10^exp
Canon(neg, dig, exp) ==
    LET d == StripLead(dig)
    IN  IF d = <<>> THEN [neg |-> FALSE, dig |-> <<>>, exp |-> 0]
        ELSE [neg |-> neg, dig |-> StripTrail(d), exp |-> exp + TrailZeros(d)]

\* the exact value (-1)^neg * (dig + a fraction, sticky iff it is not zero) * 10^exp
\* rounded to the context precision, ROUND_HALF_EVEN
Round(neg, dig, exp, sticky) ==
    LET d == StripLead(dig)
        n == Len(d) - Prec
    IN  IF n <= 0 THEN Canon(neg, d, exp)
        ELSE LET keep == SubSeq(d, 1, Prec)
                 rest == SubSeq(d, Prec + 1, Len(d))
                 more == sticky \/ StripLead(Tail(rest)) # <<>>
                 up   == \/ rest[1] > 5
                         \/ rest[1] = 5 /\ (more \/ keep[Prec] % 2 = 1)
             IN  Canon(neg, IF up THEN AddN(keep, <<1>>) ELSE keep, exp + n)

\* the Decimal of the integer n * 10^e
Dec(n, e) == Canon(n < 0, NatDigits(IF n < 0 THEN -n ELSE n), e)

D0 == Dec(0, 0)
D1 == Dec(1, 0)
D100 == Dec(100, 0)

IsZero(a) == a.dig = <<>>
DNeg(a) == IF IsZero(a) THEN a ELSE [a EXCEPT !.neg = ~a.neg]

\* a + b, exact
ExactAdd(a, b) ==
    LET e  == IF a.exp < b.exp THEN a.exp ELSE b.exp
        ca == StripLead(a.dig \o Zeros(a.exp - e))
        cb == StripLead(b.dig \o Zeros(b.exp - e))
    IN  IF a.neg = b.neg THEN [neg |-> a.neg, dig |-> AddN(ca, cb), exp |-> e]
        ELSE IF CmpN(ca, cb) >= 0
             THEN [neg |-> a.neg, dig |-> SubN(ca, cb), exp |-> e]
             ELSE [neg |-> b.neg, dig |-> SubN(cb, ca), exp |-> e]

\* Decimal.__add__
DAdd(a, b) ==
    LET s == ExactAdd(a, b) IN Round(s.neg, s.dig, s.exp, FALSE)

\* Decimal.__sub__
DSub(a, b) == DAdd(a, DNeg(b))

\* Decimal.__mul__
DMul(a, b) ==
    Round(a.neg # b.neg, MulN(a.dig, b.dig), a.exp + b.exp, FALSE)

\* Decimal.__div__, b # 0: the quotient to Prec + 1 digits and a sticky remainder
DDiv(a, b) ==
    IF IsZero(a) THEN D0
    ELSE LET shift == Len(b.dig) - Len(a.dig) + Prec + 1
             qr    == DivModN(a.dig \o Zeros(shift), b.dig)
         IN  Round(a.neg # b.neg, qr.q, a.exp - b.exp - shift, qr.r # <<>>)

\* a > 0
DPos(a) == ~IsZero(a) /\ ~a.neg

(************************** the parsed data *********************************)

\* Python's None, and a key that a dict does not hold: of a string-valued key ...
None == "None"
\* ... and of a Decimal-valued key
NoDec == [none |-> TRUE]

VARIABLES
    taxtables,   \* Gcinvoice.taxtables: guid -> [percent_sum, value_sum]
    entry,       \* the dict handed to _calcTaxDiscount
    outcome,     \* "new", then how the call ended: "returned" or the exception raised
    book,        \* the GncEntry elements parse has read from the file, in document order
    pc,          \* where parse stands: "invoices", "entries", "done", "raised"
    pos,         \* the element the running loop of parse is at
    heap,        \* the invoice dicts parse has created, by the element they come from
    invoices,    \* Gcinvoice.invoices: id -> invoice dict (a reference into heap)
    invoices_,   \* Gcinvoice.invoices_: guid -> invoice dict (a reference into heap)
    entries,     \* Gcinvoice.entries: guid -> entry dict
    block,       \* _copier.locals['_bl']: the lines of the template
    globals,     \* _copier.globals: the dict the expressions are evaluated in
    locals,      \* _copier.locals: the names the statements have bound
    handle,      \* _copier.handle: "expr" (createInvoice.handle) or "raise" (_nohandle)
    ouf,         \* the lines written to _copier.ouf, each with the line it comes from
    stack,       \* the running calls of copyblock and exec, the innermost last
    status,      \* of copy: "new", "running", "returned" or the exception raised
    options,     \* Gcinvoice.options: templates, outfiles, and the formatting options
    call,        \* the arguments of the call of createInvoice: invoiceid, template, outfile
    sink,        \* where the call writes to: the name of a file, or "stdout"
    result,      \* of the call: "rendering" from the main render on, or the exception
    previous     \* the call before this one, with what it wrote and how it ended;
                 \* of two calls at a time, the locals of the one that is not running

calcVars  == <<entry, outcome>>
parseVars == <<book, pc, pos, heap, invoices, invoices_, entries>>
copyVars  == <<block, globals, locals, handle, ouf, stack, status>>
createVars == <<options, call, sink, result, previous>>
vars == <<taxtables, calcVars, parseVars, copyVars, createVars>>

\* the variables of a run that does not call the resolver on its own, resp. parse,
\* resp. the template interpreter
CalcIdle  == entry = NoDec /\ outcome = "idle"
ParseIdle ==
    /\ book = <<>> /\ pc = "idle" /\ pos = 0
    /\ heap = <<>> /\ invoices = <<>> /\ invoices_ = <<>> /\ entries = <<>>
CopyIdle ==
    /\ block = <<>> /\ globals = <<>> /\ locals = <<>> /\ handle = "idle"
    /\ ouf = <<>> /\ stack = <<>> /\ status = "idle"
CreateIdle ==
    /\ options = <<>> /\ call = <<>> /\ sink = "idle" /\ result = "idle" /\ previous = <<>>

\* a tax table after the loop over its GncTaxTableEntry elements: the two sums
TaxTable(percent_sum, value_sum) ==
    [percent_sum |-> percent_sum, value_sum |-> value_sum]

(************************* _calcTaxDiscount ********************************)
\* The call is a frame f passed from statement to statement:
\* [err |-> None or the exception raised, entry |-> the dict, and the locals
\*  taxtable, taxincluded, discount_how, discount_type, discount, amount_raw_net,
\*  amount_raw_gross]

\* the divisor with the 1 forgotten
TaxFactorNoOne(taxtable) == DDiv(taxtable.percent_sum, D100)

\* 1 + taxtable['percent_sum'] / 100
TaxFactor(taxtable) == DAdd(D1, DDiv(taxtable.percent_sum, D100))

\* x / 0 raises DivisionByZero, 0 / 0 InvalidOperation
DivError(x) == IF IsZero(x) THEN "InvalidOperation" ELSE "DivisionByZero"

\* the test of the taxable flag forgotten
NoTaxTableOnly(e) == e.taxtable = None

\* not entry.get('taxable', None) or not entry.get('taxtable', None)
NoTax(e) == e.taxable = 0 \/ e.taxtable = None

\* entry.get('discount') is None: a discount of zero counts as a discount
DiscountAbsent(e) == e.discount = NoDec

\* not entry.get('discount', None): no discount, or a discount of zero
NoDiscount(e) == e.discount = NoDec \/ IsZero(e.discount)

\* the tax table of the entry used whenever there is one, taxable or not
LocalsOfTable(e, tables) ==
    [err |-> None,
     entry |-> [e EXCEPT !.amount_raw = DMul(e.qty, e.price)],
     taxtable |-> IF e.taxtable = None THEN TaxTable(D0, D0) ELSE tables[e.taxtable],
     taxincluded |-> IF e.taxtable = None THEN 0 ELSE e.taxincluded,
     discount_how |-> IF NoDiscount(e) THEN "PRETAX" ELSE e.discount_how,
     discount_type |-> IF NoDiscount(e) THEN "PERCENT" ELSE e.discount_type,
     discount |-> IF NoDiscount(e) THEN D0 ELSE e.discount,
     amount_raw_net |-> NoDec,
     amount_raw_gross |-> NoDec]

\* lines 598-612: amount_raw and the locals
Locals(e, tables) ==
    [err |-> None,
     entry |-> [e EXCEPT !.amount_raw = DMul(e.qty, e.price)],
     taxtable |-> IF NoTax(e) THEN TaxTable(D0, D0) ELSE tables[e.taxtable],
     taxincluded |-> IF NoTax(e) THEN 0 ELSE e.taxincluded,
     discount_how |-> IF NoDiscount(e) THEN "PRETAX" ELSE e.discount_how,
     discount_type |-> IF NoDiscount(e) THEN "PERCENT" ELSE e.discount_type,
     discount |-> IF NoDiscount(e) THEN D0 ELSE e.discount,
     amount_raw_net |-> NoDec,
     amount_raw_gross |-> NoDec]

\* lines 613-618
Validate(f) ==
    IF f.discount_how \notin {"PRETAX", "SAMETIME", "POSTTAX"}
    THEN [f EXCEPT !.err = "GcinvoiceError"]
    ELSE IF f.discount_type \notin {"PERCENT", "VALUE"}
    THEN [f EXCEPT !.err = "GcinvoiceError"]
    ELSE f

\* the percentage taken without the division by 100
DiscountAmountNoScale(discount_type, discount, base) ==
    IF discount_type = "VALUE" THEN discount ELSE DMul(discount, base)

\* discount_type VALUE: the discount itself; PERCENT: discount * base / 100
DiscountAmount(discount_type, discount, base) ==
    IF discount_type = "VALUE" THEN discount ELSE DDiv(DMul(discount, base), D100)

\* lines 622-625 and 668-671
DiscountOnRaw(f) ==
    [f EXCEPT !.entry.amount_discount =
                  DiscountAmount(f.discount_type, f.discount, f.entry.amount_raw)]

\* lines 635-638
DiscountOnRawNet(f) ==
    [f EXCEPT !.entry.amount_discount =
                  DiscountAmount(f.discount_type, f.discount, f.amount_raw_net)]

\* lines 655-658
DiscountOnRawGross(f) ==
    [f EXCEPT !.entry.amount_discount =
                  DiscountAmount(f.discount_type, f.discount, f.amount_raw_gross)]

\* lines 626-627 and 659-660
WarnDiscount(f) ==
    [f EXCEPT !.entry.warndiscount = @ \/ ~IsZero(f.entry.amount_discount)]

\* lines 628 and 646-647
GrossOfRaw(f) ==
    [f EXCEPT !.entry.amount_gross = DSub(f.entry.amount_raw, f.entry.amount_discount)]

\* lines 661-662 and 681-682
GrossOfRawGross(f) ==
    [f EXCEPT !.entry.amount_gross = DSub(f.amount_raw_gross, f.entry.amount_discount)]

\* the flat part of the tax left out of the gross amount
GrossOfNetNoValue(f) ==
    [f EXCEPT !.entry.amount_gross = DMul(f.entry.amount_net, TaxFactor(f.taxtable))]

\* lines 641-644 and 674-676
GrossOfNet(f) ==
    [f EXCEPT !.entry.amount_gross =
                  DAdd(DMul(f.entry.amount_net, TaxFactor(f.taxtable)),
                       f.taxtable.value_sum)]

\* lines 629-631 and 663-666
NetOfGross(f) ==
    IF IsZero(TaxFactor(f.taxtable))
    THEN [f EXCEPT !.err = DivError(DSub(f.entry.amount_gross, f.taxtable.value_sum))]
    ELSE [f EXCEPT !.entry.amount_net =
                       DDiv(DSub(f.entry.amount_gross, f.taxtable.value_sum),
                            TaxFactor(f.taxtable))]

\* line 639
NetOfRawNet(f) ==
    [f EXCEPT !.entry.amount_net = DSub(f.amount_raw_net, f.entry.amount_discount)]

\* line 672
NetOfRaw(f) ==
    [f EXCEPT !.entry.amount_net = DSub(f.entry.amount_raw, f.entry.amount_discount)]

\* the flat part of the tax not taken off before the division
RawNetNoValue(f) ==
    IF IsZero(TaxFactor(f.taxtable))
    THEN [f EXCEPT !.err = DivError(f.entry.amount_raw)]
    ELSE [f EXCEPT !.amount_raw_net = DDiv(f.entry.amount_raw, TaxFactor(f.taxtable))]

\* lines 633-634
RawNet(f) ==
    IF IsZero(TaxFactor(f.taxtable))
    THEN [f EXCEPT !.err = DivError(DSub(f.entry.amount_raw, f.taxtable.value_sum))]
    ELSE [f EXCEPT !.amount_raw_net =
                       DDiv(DSub(f.entry.amount_raw, f.taxtable.value_sum),
                            TaxFactor(f.taxtable))]

\* the flat part of the tax left out of the raw gross amount
RawGrossNoValue(f) ==
    [f EXCEPT !.amount_raw_gross = DMul(f.entry.amount_raw, TaxFactor(f.taxtable))]

\* lines 653-654 and 678-680
RawGross(f) ==
    [f EXCEPT !.amount_raw_gross =
                  DAdd(DMul(f.entry.amount_raw, TaxFactor(f.taxtable)),
                       f.taxtable.value_sum)]

\* lines 621-631: tax included, POSTTAX
InclPosttax(f) == NetOfGross(GrossOfRaw(WarnDiscount(DiscountOnRaw(f))))

\* lines 640-649
InclGross(f) == IF f.discount_how = "PRETAX" THEN GrossOfNet(f) ELSE GrossOfRaw(f)

\* lines 635-649, not reached when line 633 raises
InclOtherRest(f) ==
    IF f.err # None THEN f ELSE InclGross(NetOfRawNet(DiscountOnRawNet(f)))

\* lines 632-649: tax included, PRETAX or SAMETIME
InclOther(f) == InclOtherRest(RawNet(f))

\* the branch with lines 659-660 left out: it never flags the entry
ExclPosttaxNoFlag(f) ==
    NetOfGross(GrossOfRawGross(DiscountOnRawGross(RawGross(f))))

\* lines 652-666: tax not included, POSTTAX
ExclPosttax(f) ==
    NetOfGross(GrossOfRawGross(WarnDiscount(DiscountOnRawGross(RawGross(f)))))

\* the gross amount computed from the net amount whatever the timing
ExclGrossOfNet(f) == GrossOfNet(f)

\* lines 673-684
ExclGross(f) ==
    IF f.discount_how = "PRETAX" THEN GrossOfNet(f) ELSE GrossOfRawGross(RawGross(f))

\* lines 667-684: tax not included, PRETAX or SAMETIME
ExclOther(f) == ExclGross(NetOfRaw(DiscountOnRaw(f)))

\* lines 620-684: the four branches, not reached when the validation raises
Branch(f) ==
    IF f.err # None THEN f
    ELSE IF f.taxincluded # 0
    THEN IF f.discount_how = "POSTTAX" THEN InclPosttax(f) ELSE InclOther(f)
    ELSE IF f.discount_how = "POSTTAX" THEN ExclPosttax(f) ELSE ExclOther(f)

\* the difference taken the wrong way round
SetTaxesSwapped(f) ==
    IF f.err # None THEN f
    ELSE [f EXCEPT !.entry.amount_taxes = DSub(f.entry.amount_net, f.entry.amount_gross)]

\* line 685
SetTaxes(f) ==
    IF f.err # None THEN f
    ELSE [f EXCEPT !.entry.amount_taxes = DSub(f.entry.amount_gross, f.entry.amount_net)]

\* how the call ends, and the dict as it leaves it
Ended(f) == [err |-> f.err, entry |-> f.entry]

\* Gcinvoice._calcTaxDiscount(entry) with the tax tables `tables`:
\* [err |-> None or the exception raised, entry |-> the dict as the call leaves it]
CalcTaxDiscount(e, tables) == Ended(SetTaxes(Branch(Validate(Locals(e, tables)))))

\* a resolver that keeps the percentage of the entry's table as a fraction
TaxTablesScaled(e, tables) ==
    IF NoTax(e) THEN tables
    ELSE [tables EXCEPT ![e.taxtable].percent_sum = DDiv(@, D100)]

\* the tax tables as the call leaves them: lines 598-685 assign to keys of entry only,
\* and entry['taxtable'] is read, never written through
TaxTablesLeft(e, tables) == tables

(******************** the resolver on its own: SpecCalc *********************)

\* the tax tables of the runs: 19 %; 30 % and 50 flat (the tables of the test data);
\* 7.7 % and 1 flat; 130 %; and the two percent sums next to the pole of the divisor
TaxTables ==
    [t19   |-> TaxTable(Dec(19, 0), D0),
     t30   |-> TaxTable(Dec(30, 0), Dec(50, 0)),
     t77   |-> TaxTable(Dec(77, -1), D1),
     t130  |-> TaxTable(Dec(130, 0), D0),
     tm99  |-> TaxTable(Dec(-9999, -2), D0),
     tm100 |-> TaxTable(Dec(-100, 0), D0)]

Quantities == {Dec(3, 0), Dec(10, 0)}
Prices     == {Dec(4, -1), Dec(100, 0)}
Discounts  == {D0, Dec(5, 0), Dec(10, 0)}
Hows       == {"PRETAX", "SAMETIME", "POSTTAX", "OTHER"}
Types      == {"PERCENT", "VALUE", "OTHER"}

\* an entry dict as parse builds it before the call, the computed keys not yet set
RawEntry(guid, entered, invoice, qty, price, discount, discount_type, discount_how, taxable, taxincluded, taxtable) ==
    [guid |-> guid, entered |-> entered, invoice |-> invoice,
     qty |-> qty, price |-> price,
     discount |-> discount, discount_type |-> discount_type,
     discount_how |-> discount_how,
     taxable |-> taxable, taxincluded |-> taxincluded, taxtable |-> taxtable,
     amount_raw |-> NoDec, amount_discount |-> NoDec, amount_net |-> NoDec,
     amount_gross |-> NoDec, amount_taxes |-> NoDec, warndiscount |-> FALSE]

\* discount, discount_type, discount_how: all three absent, or all three present
DiscountFields ==
    {<<NoDec, None, None>>} \cup (Discounts \X Types \X Hows)

\* taxable, taxincluded, taxtable
TaxFields ==
    {0, 1} \X {0, 1} \X ({None} \cup DOMAIN TaxTables)

CalcInputs ==
    {RawEntry("e", 1, "i", q, p, d[1], d[2], d[3], t[1], t[2], t[3]) :
        q \in Quantities, p \in Prices, d \in DiscountFields, t \in TaxFields}

InitCalc ==
    /\ entry \in CalcInputs
    /\ outcome = "new"
    /\ taxtables = TaxTables
    /\ ParseIdle
    /\ CopyIdle
    /\ CreateIdle

\* the call ends with r
Returns(r) ==
    /\ entry' = r.entry
    /\ outcome' = IF r.err = None THEN "returned" ELSE r.err

\* one call of _calcTaxDiscount(entry)
Resolve ==
    /\ outcome = "new"
    /\ Returns(CalcTaxDiscount(entry, taxtables))
    /\ taxtables' = TaxTablesLeft(entry, taxtables)
    /\ UNCHANGED <<parseVars, copyVars, createVars>>

NextCalc == Resolve

SpecCalc == InitCalc /\ [][NextCalc]_vars

(***************************** parse: SpecParse *****************************)

\* most GncEntry elements of a data file
MaxEntries == 3

\* a dict with no key, and d[k] = v
EmptyMap == [k \in {} |-> None]
Put(d, k, v) == [x \in DOMAIN d \cup {k} |-> IF x = k THEN v ELSE d[x]]

\* intid: the id as an integer where it is the text of one
IntId(id) ==
    CASE id = "1"    -> 1
      [] id = "2"    -> 2
      [] id = "0002" -> 2
      [] id = "7"    -> 7
      [] OTHER       -> id

\* the GncInvoice elements of the data file: two invoices, a third whose id is that
\* of the second, and one whose opening date cannot be read; owner: the name of the
\* customer or vendor the invoice refers to, None when the file holds none
BookInvoices ==
    << [guid |-> "g1", id |-> "1",    owner |-> "Caesar", date_opened |-> "2008-03-01"],
       [guid |-> "g2", id |-> "2",    owner |-> None,     date_opened |-> "2008-03-02"],
       [guid |-> "g3", id |-> "0002", owner |-> None,     date_opened |-> "2008-03-03"],
       [guid |-> "g4", id |-> "4",    owner |-> "Caesar", date_opened |-> "no date"] >>

\* _readdate raises for a text that is no date
ReadDateRaises(text) == text = "no date"

\* the GncEntry elements a data file is made of (guid 0: parse numbers them by their
\* place): plain; taxed with a PRETAX discount; taxed with a POSTTAX discount; a
\* timing outside the enumeration; a divisor 1 + percent_sum/100 of zero; no invoice;
\* an invoice, resp. a tax table, the file does not hold; no quantity; an entry
\* of the invoice whose id is taken; and an earlier entry of the invoice whose id
\* that one takes
EntryElements ==
    { RawEntry(0, 2, "g1", Dec(3, 0), Dec(4, -1), NoDec, None, None, 0, 0, None),
      RawEntry(0, 1, "g1", Dec(10, 0), Dec(100, 0), Dec(10, 0), "PERCENT", "PRETAX",
               1, 0, "t19"),
      RawEntry(0, 1, "g2", Dec(3, 0), Dec(100, 0), Dec(5, 0), "VALUE", "POSTTAX",
               1, 0, "t30"),
      RawEntry(0, 1, "g1", Dec(3, 0), Dec(4, -1), Dec(5, 0), "PERCENT", "OTHER",
               0, 0, None),
      RawEntry(0, 3, "g1", Dec(3, 0), Dec(4, -1), NoDec, None, None, 1, 1, "tm100"),
      RawEntry(0, 1, None, Dec(3, 0), Dec(4, -1), NoDec, None, None, 0, 0, None),
      RawEntry(0, 1, "gX", Dec(3, 0), Dec(4, -1), NoDec, None, None, 0, 0, None),
      RawEntry(0, 1, "g1", Dec(3, 0), Dec(4, -1), NoDec, None, None, 1, 0, "tX"),
      RawEntry(0, 1, "g1", NoDec, Dec(4, -1), NoDec, None, None, 0, 0, None),
      RawEntry(0, 1, "g3", Dec(10, 0), Dec(4, -1), Dec(0, 0), "OTHER", "OTHER",
               1, 1, None),
      RawEntry(0, 0, "g2", Dec(3, 0), Dec(4, -1), NoDec, None, None, 0, 0, None) }

\* the GncEntry element x at place k of the file, its guid that place
Element(x, k) == [x EXCEPT !.guid = k]

\* lines 316-342 raise: _readnumber of a text that is missing
Unreadable(raw) == raw.qty = NoDec \/ raw.price = NoDec

\* lines 316-344: the dict of the element; taxincluded and taxtable are read for a
\* taxable entry only
EntryDict(raw) ==
    IF raw.taxable # 0 THEN raw
    ELSE [raw EXCEPT !.taxincluded = 0, !.taxtable = None]

\* no except clause at all around the call
CaughtNever(err) == FALSE

\* line 357: except GcinvoiceError
Caught(err) == err = "GcinvoiceError"

\* list.sort(key=get_entered): stable, ascending
RECURSIVE SortedByEntered(_)
SortedByEntered(list) ==
    IF list = <<>> THEN <<>>
    ELSE LET front == SortedByEntered(SubSeq(list, 1, Len(list) - 1))
             e     == list[Len(list)]
             keep  == Cardinality({i \in 1..Len(front) : front[i].entered <= e.entered})
         IN  SubSeq(front, 1, keep) \o <<e>> \o SubSeq(front, keep + 1, Len(front))

InitParse ==
    /\ taxtables = TaxTables
    /\ CalcIdle
    /\ CopyIdle
    /\ CreateIdle
    /\ book = <<>>
    /\ pc = "invoices"
    /\ pos = 1
    /\ heap = <<>>
    /\ invoices = EmptyMap
    /\ invoices_ = EmptyMap
    /\ entries = EmptyMap

\* lines 266-299: one turn of the loop over the GncInvoice elements
ParseInvoice ==
    /\ pc = "invoices"
    /\ pos <= Len(BookInvoices)
    /\ LET invc == BookInvoices[pos]
           invcdict == [guid |-> invc.guid, id |-> IntId(invc.id), owner |-> invc.owner,
                        entries |-> <<>>, warndiscount |-> FALSE]
       IN  IF ReadDateRaises(invc.date_opened)
           THEN UNCHANGED <<heap, invoices, invoices_>>
           ELSE /\ heap' = Append(heap, invcdict)
                /\ invoices' = Put(invoices, invcdict.id, Len(heap) + 1)
                /\ invoices_' = Put(invoices_, invcdict.guid, Len(heap) + 1)
    /\ pos' = pos + 1
    /\ UNCHANGED <<taxtables, calcVars, copyVars, createVars, book, pc, entries>>

\* line 301: the loop over the invoices is through
StartEntries ==
    /\ pc = "invoices"
    /\ pos > Len(BookInvoices)
    /\ pc' = "entries"
    /\ pos' = 1
    /\ UNCHANGED <<taxtables, calcVars, copyVars, createVars, book, heap, invoices, invoices_, entries>>

\* lines 305-315, 325-328, 341-350: the turn ends at one of the `continue`s
Skipped(raw) ==
    \/ raw.invoice = None
    \/ raw.invoice \notin DOMAIN invoices_
    \/ Unreadable(raw)
    \/ raw.taxable # 0 /\ raw.taxtable # None /\ raw.taxtable \notin DOMAIN taxtables

\* the flag of the invoice follows the entry stored last
WarnsLast(flag, entrydict) == entrydict.warndiscount

\* lines 360-362: the flag of the invoice once entrydict is stored
Warns(flag, entrydict) == flag \/ entrydict.warndiscount

\* lines 360-364: entrydict, its flag moved to the invoice iv, is stored
Store(entrydict, iv) ==
    /\ entries' = Put(entries, entrydict.guid, [entrydict EXCEPT !.warndiscount = FALSE])
    /\ heap' = [heap EXCEPT
           ![iv].entries = Append(@, [entrydict EXCEPT !.warndiscount = FALSE]),
           ![iv].warndiscount = Warns(@, entrydict)]

\* lines 304-364 for the element raw, r being what _calcTaxDiscount does with it
EntryTurn(raw, r) ==
    /\ book' = Append(book, raw)
    /\ taxtables' = IF Skipped(raw) THEN taxtables
                    ELSE TaxTablesLeft(EntryDict(raw), taxtables)
    /\ IF Skipped(raw) \/ Caught(r.err)
       THEN /\ pc' = pc /\ pos' = pos + 1
            /\ UNCHANGED <<heap, entries>>
       ELSE IF r.err # None
       THEN /\ pc' = "raised" /\ pos' = pos
            /\ UNCHANGED <<heap, entries>>
       ELSE /\ pc' = pc /\ pos' = pos + 1
            /\ Store(r.entry, invoices_[raw.invoice])

\* lines 303-364: one turn of the loop over the GncEntry elements, for the next
\* element of a file made of the elements S
ParseEntryFrom(S) ==
    /\ pc = "entries"
    /\ Len(book) < MaxEntries
    /\ \E x \in S :
           EntryTurn(Element(x, pos),
                     CalcTaxDiscount(EntryDict(Element(x, pos)), taxtables))
    /\ UNCHANGED <<calcVars, copyVars, createVars, invoices, invoices_>>

ParseEntry == ParseEntryFrom(EntryElements)

\* lines 365-366, the file having no further GncEntry element: the entries of the
\* invoices of the id map are sorted
SortEntries ==
    /\ pc = "entries"
    /\ heap' = [i \in DOMAIN heap |->
                   IF \E id \in DOMAIN invoices : invoices[id] = i
                   THEN [heap[i] EXCEPT !.entries = SortedByEntered(@)]
                   ELSE heap[i]]
    /\ pc' = "done"
    /\ UNCHANGED <<taxtables, calcVars, copyVars, createVars, book, pos, invoices, invoices_, entries>>

NextParse == ParseInvoice \/ StartEntries \/ ParseEntry \/ SortEntries

SpecParse == InitParse /\ [][NextParse]_vars

(******************** the template interpreter: SpecCopy ********************)

\* most lines of a template
MaxLines == 5

\* The lines a template is made of. kind: which of restat '%\+' ("begin"),
\* recont '%= ' ("cont") and restend '%-' ("end") matches the line, "text" when none
\* does; stat: the line after the match, stripped; text: the line itself, cut at the
\* matches of regex '@\{([^}]+)\}'
Lines ==
    { [kind |-> "text",  stat |-> "",              text |-> <<"@{x}", "@{c}">>],
      [kind |-> "begin", stat |-> "for x in seq:", text |-> <<"%+ for x in seq:">>],
      [kind |-> "begin", stat |-> "if seq:",       text |-> <<"%+ if seq:">>],
      [kind |-> "cont",  stat |-> "else:",         text |-> <<"%= else:">>],
      [kind |-> "end",   stat |-> "",              text |-> <<"%-">>] }

\* the dicts the templates are rendered with: c is always there, seq is empty or not
Contexts ==
    { [c |-> "C", seq |-> <<>>],
      [c |-> "C", seq |-> <<"1", "2">>] }

RECURSIVE SeqsUpTo(_, _)
SeqsUpTo(S, n) ==
    IF n = 0 THEN {<<>>}
    ELSE SeqsUpTo(S, n - 1)
         \cup {Append(q, l) : q \in {r \in SeqsUpTo(S, n - 1) : Len(r) = n - 1}, l \in S}

\* a match of regex, and its group 1: the expression
IsPlaceholder(token) ==
    token \in {"@{x}", "@{c}", "@{id}", "@{amount_net}", "@{amount_gross_}", "@{amount_taxes_}"}
Group1(token) ==
    CASE token = "@{x}"             -> "x"
      [] token = "@{c}"             -> "c"
      [] token = "@{id}"            -> "id"
      [] token = "@{amount_net}"    -> "amount_net"
      [] token = "@{amount_gross_}" -> "amount_gross_"
      [] token = "@{amount_taxes_}" -> "amount_taxes_"

\* eval(expr, self.globals, self.locals) raises NameError for a name in neither dict
EvalRaises(expr) == expr \notin DOMAIN locals /\ expr \notin DOMAIN globals
Eval(expr) == IF expr \in DOMAIN locals THEN locals[expr] ELSE globals[expr]

\* the copier built without handle=handle: every failure is raised again
HandlesNever(h) == FALSE

\* the handler returns: createInvoice.handle does, _nohandle raises again
Handles(h) == h = "expr"

\* lines 894-901, repl: the replacement of a match; the values are unicode strings
Repl(token) ==
    IF EvalRaises(Group1(token)) THEN Group1(token) ELSE Eval(Group1(token))

\* line 936, self.regex.sub(repl, line): the line with its matches replaced ...
Substituted(text) ==
    [n \in DOMAIN text |-> IF IsPlaceholder(text[n]) THEN Repl(text[n]) ELSE text[n]]

\* ... unless repl raises
SubRaises(text) ==
    \E n \in DOMAIN text :
        IsPlaceholder(text[n]) /\ EvalRaises(Group1(text[n])) /\ ~Handles(handle)

\* the statement so far is closed at line j: '%s _cb(%s,%s)' % (stat, i+1, j)
Closed(st, j) ==
    [i |-> st.i, j |-> j,
     segs |-> Append(st.segs, [stat |-> st.stat, lo |-> st.i + 1, hi |-> j])]

RECURSIVE ScanFrom(_, _, _, _)

\* a continuation line splits the statement at whatever count it is met
ScanFromAnyDepth(bl, last, j, st) ==
    IF j >= last THEN Closed(st, j)
    ELSE IF bl[j + 1].kind = "end"
    THEN IF st.nest = 1 THEN Closed(st, j)
         ELSE ScanFrom(bl, last, j + 1, [st EXCEPT !.nest = @ - 1])
    ELSE IF bl[j + 1].kind = "begin"
    THEN ScanFrom(bl, last, j + 1, [st EXCEPT !.nest = @ + 1])
    ELSE IF bl[j + 1].kind = "cont"
    THEN ScanFrom(bl, last, j + 1,
                  [Closed(st, j) EXCEPT !.i = j] @@ [nest |-> st.nest, stat |-> bl[j + 1].stat])
    ELSE ScanFrom(bl, last, j + 1, st)

\* lines 913-931: the scan from line j on; st: i, nest, and the statement so far, as
\* the clauses stat _cb(lo,hi) it is made of
ScanFrom(bl, last, j, st) ==
    IF j >= last THEN Closed(st, j)
    ELSE IF bl[j + 1].kind = "end"
    THEN IF st.nest = 1 THEN Closed(st, j)
         ELSE ScanFrom(bl, last, j + 1, [st EXCEPT !.nest = @ - 1])
    ELSE IF bl[j + 1].kind = "begin"
    THEN ScanFrom(bl, last, j + 1, [st EXCEPT !.nest = @ + 1])
    ELSE IF st.nest = 1 /\ bl[j + 1].kind = "cont"
    THEN ScanFrom(bl, last, j + 1,
                  [Closed(st, j) EXCEPT !.i = j] @@ [nest |-> 1, stat |-> bl[j + 1].stat])
    ELSE ScanFrom(bl, last, j + 1, st)

\* the scan with its counter started at 0
ScanFromZero(bl, i, last) ==
    ScanFrom(bl, last, i + 1,
             [i |-> i, nest |-> 0, stat |-> bl[i + 1].stat, segs |-> <<>>])

\* lines 910-931 for the statement of line i: [i, j, segs] as line 933 finds them
Scan(bl, i, last) ==
    ScanFrom(bl, last, i + 1,
             [i |-> i, nest |-> 1, stat |-> bl[i + 1].stat, segs |-> <<>>])

\* an unterminated block is an error of its own
CompilesIfTerminated(s, last) ==
    /\ s.j < last
    /\ Len(s.segs) = 1 \/ (Len(s.segs) = 2 /\ s.segs[2].stat = "else:")

\* line 933: the statement compiles; its header is a for or an if, which takes at
\* most one more clause, an else
Compiles(s, last) ==
    Len(s.segs) = 1 \/ (Len(s.segs) = 2 /\ s.segs[2].stat = "else:")

\* a call of copyblock(i, last) with its locals i and j, resp. an exec of the
\* clauses segs: k elements of the for loop taken, done: the last clause was entered
CopyblockFrame(i, last) ==
    [op |-> "copyblock", i |-> i, last |-> last, j |-> 0,
     segs |-> <<>>, k |-> 0, done |-> FALSE]
ExecFrame(segs) ==
    [op |-> "exec", i |-> 0, last |-> 0, j |-> 0,
     segs |-> segs, k |-> 0, done |-> FALSE]

Top == stack[Len(stack)]
Running(op) == status = "running" /\ stack # <<>> /\ Top.op = op
IsFor(frame) == frame.segs[1].stat = "for x in seq:"

\* the clause is called without its last line, _cb(lo,hi-1)
CallShort(seg) == CopyblockFrame(seg.lo, seg.hi - 1)

\* the clause _cb(lo,hi) is called
Call(seg) == CopyblockFrame(seg.lo, seg.hi)

InitCopy ==
    /\ taxtables = TaxTables
    /\ CalcIdle
    /\ ParseIdle
    /\ CreateIdle
    /\ block \in SeqsUpTo(Lines, MaxLines)
    /\ globals \in Contexts
    /\ locals = EmptyMap
    /\ handle \in {"expr", "raise"}
    /\ handle = "raise" => Len(block) = 1
    /\ ouf = <<>>
    /\ stack = <<>>
    /\ status = "new"

\* lines 956-961: copy(block) calls copyblock()
Copy ==
    /\ status = "new"
    /\ status' = "running"
    /\ stack' = <<CopyblockFrame(0, Len(block))>>
    /\ UNCHANGED <<taxtables, calcVars, parseVars, createVars, block, globals, locals, handle, ouf>>

\* a line that starts no statement is written when no marker matches it, and
\* passed over when it is an end or a continuation line
CopyLineDropsMarkers ==
    /\ Running("copyblock")
    /\ Top.i < Top.last
    /\ block[Top.i + 1].kind # "begin"
    /\ IF SubRaises(block[Top.i + 1].text)
       THEN /\ status' = "NameError"
            /\ UNCHANGED <<ouf, stack>>
       ELSE /\ ouf' = IF block[Top.i + 1].kind = "text"
                      THEN Append(ouf, [line |-> Top.i,
                                        text |-> Substituted(block[Top.i + 1].text)])
                      ELSE ouf
            /\ stack' = [stack EXCEPT ![Len(stack)].i = @ + 1]
            /\ UNCHANGED status
    /\ UNCHANGED <<taxtables, calcVars, parseVars, createVars, block, globals, locals, handle>>

\* lines 905-908, 935-938: a line that starts no statement is written
CopyLine ==
    /\ Running("copyblock")
    /\ Top.i < Top.last
    /\ block[Top.i + 1].kind # "begin"
    /\ IF SubRaises(block[Top.i + 1].text)
       THEN /\ status' = "NameError"
            /\ UNCHANGED <<ouf, stack>>
       ELSE /\ ouf' = Append(ouf, [line |-> Top.i,
                                   text |-> Substituted(block[Top.i + 1].text)])
            /\ stack' = [stack EXCEPT ![Len(stack)].i = @ + 1]
            /\ UNCHANGED status
    /\ UNCHANGED <<taxtables, calcVars, parseVars, createVars, block, globals, locals, handle>>

\* line 933 for the scanned statement s: exec raises, or the statement starts
Exec(s) ==
    IF Compiles(s, Top.last)
    THEN /\ stack' = Append([stack EXCEPT ![Len(stack)].i = s.i, ![Len(stack)].j = s.j],
                            ExecFrame(s.segs))
         /\ UNCHANGED status
    ELSE /\ status' = "SyntaxError"
         /\ UNCHANGED stack

\* lines 905-933: a line that starts a statement
ExecStatement ==
    /\ Running("copyblock")
    /\ Top.i < Top.last
    /\ block[Top.i + 1].kind = "begin"
    /\ Exec(Scan(block, Top.i, Top.last))
    /\ UNCHANGED <<taxtables, calcVars, parseVars, createVars, block, globals, locals, handle, ouf>>

\* the else clause is run when the loop is left (there is no break)
ElseRunsIfEmpty(frame) == Len(frame.segs) = 2 /\ frame.k = 0

\* the for statement has an else clause
ElseRuns(frame) == Len(frame.segs) = 2

\* for x in seq: _cb(lo,hi), the next element
ForStep ==
    /\ Running("exec")
    /\ IsFor(Top)
    /\ Top.k < Len(globals.seq)
    /\ locals' = Put(locals, "x", globals.seq[Top.k + 1])
    /\ stack' = Append([stack EXCEPT ![Len(stack)].k = @ + 1], Call(Top.segs[1]))
    /\ UNCHANGED <<taxtables, calcVars, parseVars, createVars, block, globals, handle, ouf, status>>

\* for x in seq: ... else: _cb(lo,hi), the elements taken
ForElse ==
    /\ Running("exec")
    /\ IsFor(Top)
    /\ Top.k = Len(globals.seq)
    /\ ~Top.done
    /\ stack' = IF ElseRuns(Top)
                THEN Append([stack EXCEPT ![Len(stack)].done = TRUE], Call(Top.segs[2]))
                ELSE [stack EXCEPT ![Len(stack)].done = TRUE]
    /\ UNCHANGED <<taxtables, calcVars, parseVars, createVars, block, globals, locals, handle, ouf, status>>

\* the first clause whatever the condition
TakenFirst(frame) == 1

\* the clause an if statement runs: the first when the condition holds, else the
\* else clause, 0 when there is none
Taken(frame) ==
    IF globals.seq # <<>> THEN 1
    ELSE IF Len(frame.segs) = 2 THEN 2 ELSE 0

\* if seq: _cb(lo,hi) else: _cb(lo,hi)
IfStep ==
    /\ Running("exec")
    /\ ~IsFor(Top)
    /\ ~Top.done
    /\ stack' = IF Taken(Top) = 0
                THEN [stack EXCEPT ![Len(stack)].done = TRUE]
                ELSE Append([stack EXCEPT ![Len(stack)].done = TRUE],
                            Call(Top.segs[Taken(Top)]))
    /\ UNCHANGED <<taxtables, calcVars, parseVars, createVars, block, globals, locals, handle, ouf, status>>

\* exec is through and the caller goes on at the end line itself, i = j
ExecReturnAtEnd ==
    /\ Running("exec")
    /\ Top.done
    /\ stack' = [SubSeq(stack, 1, Len(stack) - 1) EXCEPT
                    ![Len(stack) - 1].i = stack[Len(stack) - 1].j]
    /\ UNCHANGED <<taxtables, calcVars, parseVars, createVars, block, globals, locals, handle, ouf, status>>

\* line 934: exec is through, i = j+1
ExecReturn ==
    /\ Running("exec")
    /\ Top.done
    /\ stack' = [SubSeq(stack, 1, Len(stack) - 1) EXCEPT
                    ![Len(stack) - 1].i = stack[Len(stack) - 1].j + 1]
    /\ UNCHANGED <<taxtables, calcVars, parseVars, createVars, block, globals, locals, handle, ouf, status>>

\* line 905: i < last no longer: copyblock returns, to exec or to copy
BlockReturn ==
    /\ Running("copyblock")
    /\ Top.i >= Top.last
    /\ stack' = SubSeq(stack, 1, Len(stack) - 1)
    /\ status' = IF Len(stack) = 1 THEN "returned" ELSE status
    /\ UNCHANGED <<taxtables, calcVars, parseVars, createVars, block, globals, locals, handle, ouf>>

NextCopy ==
    \/ Copy \/ CopyLine \/ ExecStatement
    \/ ForStep \/ ForElse \/ IfStep \/ ExecReturn \/ BlockReturn

SpecCopy == InitCopy /\ [][NextCopy]_vars

\* The render with its steps taken as long as one is possible: copy runs in one
\* thread from its call to its return or its exception
SpecCopyFair == SpecCopy /\ WF_vars(NextCopy)

(*********************** createInvoice: SpecInvoice *************************)

\* val.quantize(Decimal(10) ** -precision), ROUND_HALF_EVEN, for the digits kept and
\* the digits dropped, as unicode(val) writes it: the sign, the digits, and how many
\* of them follow the point
Quantized(neg, keep, rest, precision) ==
    [neg |-> neg,
     dig |-> StripLead(
              IF \/ rest[1] > 5
                 \/ /\ rest[1] = 5
                    /\ \/ StripLead(Tail(rest)) # <<>>
                       \/ keep # <<>> /\ keep[Len(keep)] % 2 = 1
              THEN AddN(keep, <<1>>) ELSE keep),
     places |-> precision]

\* lines 770-801 and 804-835 with uselocale false and a precision: _currencyformatting
\* and _quantityformatting are then the same function
Formatting(val, precision) ==
    LET drop == -precision - val.exp
        n    == Len(val.dig)
    IN  IF drop <= 0
        THEN [neg |-> val.neg, dig |-> StripLead(val.dig \o Zeros(-drop)),
              places |-> precision]
        ELSE Quantized(val.neg,
                       IF n > drop THEN SubSeq(val.dig, 1, n - drop) ELSE <<>>,
                       IF n >= drop THEN SubSeq(val.dig, n - drop + 1, n)
                       ELSE Zeros(drop - n) \o val.dig,
                       precision)

\* lines 429-434: options.cformat, a function that returns its name whatever the
\* value, or _currencyformatting with the currency options
cformat(opts, val) ==
    IF opts.cformat # None THEN [text |-> opts.cformat]
    ELSE Formatting(val, opts.currency_precision)

\* lines 425, 435-437: options.qformat, or _quantityformatting with the quantity options
qformat(opts, val) ==
    IF opts.qformat # None THEN [text |-> opts.qformat]
    ELSE Formatting(val, opts.quantities_precision)

\* sum(x[key] for x in list): the first k entries added to 0 from the left
RECURSIVE Sum(_, _, _)
Sum(list, key, k) ==
    IF k = 0 THEN D0 ELSE DAdd(Sum(list, key, k - 1), list[k][key])

\* the raw value stored under the plain name, the underscore name formatted
FormatEntrySwapped(e, opts) ==
    [e EXCEPT !.discount = IF e.discount = NoDec THEN NoDec
                           ELSE IF e.discount_type = "PERCENT"
                           THEN cformat(opts, e.discount) ELSE qformat(opts, e.discount)]
    @@ [price_ |-> cformat(opts, e.price), amount_raw_ |-> cformat(opts, e.amount_raw),
        amount_net_ |-> cformat(opts, e.amount_net),
        amount_gross_ |-> cformat(opts, e.amount_gross),
        amount_taxes_ |-> cformat(opts, e.amount_taxes),
        amount_discount_ |-> cformat(opts, e.amount_discount),
        qty_ |-> qformat(opts, e.qty)]
    @@ (IF e.discount = NoDec THEN EmptyMap ELSE [discount_ |-> e.discount])

\* lines 443-455 for the entry e: the raw values under the names with an underscore,
\* the formatted ones under the plain names; discount_ only where there is a discount
FormatEntry(e, opts) ==
    [e EXCEPT !.price = cformat(opts, e.price),
              !.amount_raw = cformat(opts, e.amount_raw),
              !.amount_net = cformat(opts, e.amount_net),
              !.amount_gross = cformat(opts, e.amount_gross),
              !.amount_taxes = cformat(opts, e.amount_taxes),
              !.amount_discount = cformat(opts, e.amount_discount),
              !.qty = qformat(opts, e.qty),
              !.discount = IF e.discount = NoDec THEN NoDec
                           ELSE IF e.discount_type = "PERCENT"
                           THEN cformat(opts, e.discount) ELSE qformat(opts, e.discount)]
    @@ [price_ |-> e.price, amount_raw_ |-> e.amount_raw, amount_net_ |-> e.amount_net,
        amount_gross_ |-> e.amount_gross, amount_taxes_ |-> e.amount_taxes,
        amount_discount_ |-> e.amount_discount, qty_ |-> e.qty]
    @@ (IF e.discount = NoDec THEN EmptyMap ELSE [discount_ |-> e.discount])

\* the total of the taxes taken as the difference of the two other totals
TotalsTaxesDerived(net, gross, taxes, opts) ==
    [amount_net_ |-> net, amount_net |-> cformat(opts, net),
     amount_gross_ |-> gross, amount_gross |-> cformat(opts, gross),
     amount_taxes_ |-> DSub(gross, net), amount_taxes |-> cformat(opts, DSub(gross, net))]

\* lines 439-441 for the three sums of lines 418-420
Totals(net, gross, taxes, opts) ==
    [amount_net_ |-> net, amount_net |-> cformat(opts, net),
     amount_gross_ |-> gross, amount_gross |-> cformat(opts, gross),
     amount_taxes_ |-> taxes, amount_taxes |-> cformat(opts, taxes)]

\* lines 413-455: invc, the copy of the invoice dict iv with the totals and the
\* formatted values, the dict the templates are rendered with
Invc(iv, opts) ==
    [iv EXCEPT !.entries = [n \in DOMAIN iv.entries |-> FormatEntry(iv.entries[n], opts)]]
    @@ Totals(Sum(iv.entries, "amount_net", Len(iv.entries)),
              Sum(iv.entries, "amount_gross", Len(iv.entries)),
              Sum(iv.entries, "amount_taxes", Len(iv.entries)), opts)

\* The options the calls are made with, as _parse_configfiles leaves them: templates
\* and outfiles are dicts by owner name, cformat and qformat are None or a function
\* of the caller; the uselocale options are false
Options ==
    { [templates |-> [default |-> "default.tpl"], outfiles |-> EmptyMap,
       cformat |-> None, qformat |-> None,
       currency_precision |-> 2, quantities_precision |-> 0],
      [templates |-> EmptyMap, outfiles |-> [Caesar |-> "Caesar.txt"],
       cformat |-> "dummy", qformat |-> None,
       currency_precision |-> 2, quantities_precision |-> 0] }

\* the arguments of a call: the id of an invoice of the file, or of none; a template
\* given as a string, or none; the name of a file to write, or none
Calls == [invoiceid : {"1", "2", "7"}, template : {None, "arg"}, outfile : {None, "inv.txt"}]

\* the GncEntry elements of the files the invoices are created from, all of the
\* invoice with id 1: not taxed, with a discount in percent; and the tax of 19 %
\* included in the price
InvoiceElements ==
    { RawEntry(0, 2, "g1", Dec(3, 0), Dec(4, -1), Dec(10, 0), "PERCENT", "PRETAX",
               0, 0, None),
      RawEntry(0, 1, "g1", Dec(10, 0), Dec(100, 0), NoDec, None, None, 1, 1, "t19") }

\* lines 483-514: the lines of the template, read from the file of that name, or the
\* string itself split into lines where there is no such file
TemplateLines(template) ==
    IF template = "default.tpl"
    THEN << [kind |-> "text", stat |-> "", text |-> <<"@{id}", "@{amount_net}">>],
            [kind |-> "text", stat |-> "", text |-> <<"@{amount_taxes_}">>] >>
    ELSE << [kind |-> "text", stat |-> "", text |-> <<"gross ", "@{amount_gross_}">>] >>

\* d.get(k, None)
Get(d, k) == IF k \in DOMAIN d THEN d[k] ELSE None

\* a name of its own where nothing is given and nothing configured
ChosenBuiltin(arg, ownername, configured) ==
    IF arg # None THEN arg
    ELSE IF Get(configured, ownername) # None THEN Get(configured, ownername)
    ELSE IF Get(configured, "default") # None THEN Get(configured, "default")
    ELSE "default.tpl"

\* lines 467-469 and 516-518: arg or configured.get(ownername) or
\* configured.get('default'); the names are non-empty strings
Chosen(arg, ownername, configured) ==
    IF arg # None THEN arg
    ELSE IF Get(configured, ownername) # None THEN Get(configured, ownername)
    ELSE Get(configured, "default")

\* no file at all where there is no name
OutfNamed(outfile) == outfile

\* lines 519-540: the file of the chosen name is opened for writing (the name is
\* rendered first, and has no placeholder), and without a name outf is sys.stdout
Outf(outfile) == IF outfile # None THEN outfile ELSE "stdout"

\* the entries of the invoice dict are taken out of it by the render
InvoiceDrained(iv, invc) == [iv EXCEPT !.entries = <<>>]

\* the sums of lines 418-420 are stored in the invoice dict itself
InvoiceTotalled(iv, invc) ==
    iv @@ [amount_net |-> invc.amount_net_, amount_gross |-> invc.amount_gross_,
           amount_taxes |-> invc.amount_taxes_]

\* line 413: invc is a deep copy, the invoice dict iv is left as it is
InvoiceKept(iv, invc) == iv

\* no call yet, and what there is before the first call
NoCall == [invoiceid |-> None, template |-> None, outfile |-> None]
NoPrevious == [call |-> NoCall, sink |-> None, ouf |-> <<>>, outcome |-> None]

\* how the call ended, or where its main render stands
Outcome == IF result = "rendering" THEN status ELSE result

\* lines 411 and 472: the call raises, no copier is built and no file is opened
Raise(exc) ==
    /\ result' = exc
    /\ sink' = None
    /\ block' = <<>> /\ globals' = <<>> /\ locals' = <<>> /\ handle' = "idle"
    /\ ouf' = <<>> /\ stack' = <<>> /\ status' = "idle"
    /\ UNCHANGED heap

\* lines 413-548 for the invoice dict at iv, its copy invc, the template templ and
\* the file outf: the copier of the main render is built
Render(iv, invc, templ, outf) ==
    /\ result' = "rendering"
    /\ sink' = outf
    /\ block' = TemplateLines(templ)
    /\ globals' = invc
    /\ locals' = EmptyMap
    /\ handle' = "expr"
    /\ ouf' = <<>>
    /\ stack' = <<>>
    /\ status' = "new"
    /\ heap' = [heap EXCEPT ![iv] = InvoiceKept(@, invc)]

\* lines 405-548 for the arguments c
Create(c) ==
    IF IntId(c.invoiceid) \notin DOMAIN invoices THEN Raise("GcinvoiceError")
    ELSE IF Chosen(c.template, heap[invoices[IntId(c.invoiceid)]].owner,
                   options.templates) = None
    THEN Raise("GcinvoiceError")
    ELSE Render(invoices[IntId(c.invoiceid)],
                Invc(heap[invoices[IntId(c.invoiceid)]], options),
                Chosen(c.template, heap[invoices[IntId(c.invoiceid)]].owner,
                       options.templates),
                Outf(Chosen(c.outfile, heap[invoices[IntId(c.invoiceid)]].owner,
                            options.outfiles)))

\* createInvoice(invoiceid, template, outfile), called once parse is through and
\* the call before has ended; lines 549-553, cop.copy(templ), are the steps of the
\* template interpreter
CreateInvoice ==
    /\ pc = "done"
    /\ result # "rendering" \/ status = "returned"
    /\ \E c \in Calls :
           /\ call' = c
           /\ Create(c)
    /\ previous' = [call |-> call, sink |-> sink, ouf |-> ouf, outcome |-> Outcome]
    /\ UNCHANGED <<taxtables, calcVars, options, book, pc, pos, invoices, invoices_, entries>>

InitInvoice ==
    /\ taxtables = TaxTables
    /\ CalcIdle
    /\ CopyIdle
    /\ book = <<>>
    /\ pc = "invoices"
    /\ pos = 1
    /\ heap = <<>>
    /\ invoices = EmptyMap
    /\ invoices_ = EmptyMap
    /\ entries = EmptyMap
    /\ options \in Options
    /\ call = NoCall
    /\ sink = None
    /\ result = "idle"
    /\ previous = NoPrevious

ParseInvoiceEntry == ParseEntryFrom(InvoiceElements)

NextInvoice ==
    \/ ParseInvoice \/ StartEntries \/ ParseInvoiceEntry \/ SortEntries
    \/ CreateInvoice \/ Copy \/ CopyLine \/ BlockReturn

SpecInvoice == InitInvoice /\ [][NextInvoice]_vars

(************** two calls of createInvoice at a time: SpecRenders **************)
\* Two threads call createInvoice on the same Gcinvoice object once parse is
\* through. Everything a call assigns to is a local of the call (invoiceid, invc,
\* template, templ, outfile, outf, cop) or an attribute of its copier; the variables
\* call ... status hold the locals of the thread that is running, previous holds
\* those of the thread that is not, and a switch of threads exchanges them.

\* the locals of the running call and the attributes of its copier
Frame ==
    [call |-> call, sink |-> sink, result |-> result, block |-> block,
     globals |-> globals, locals |-> locals, handle |-> handle, ouf |-> ouf,
     stack |-> stack, status |-> status]

\* a thread that has not called yet
NoFrame ==
    [call |-> NoCall, sink |-> None, result |-> "idle", block |-> <<>>,
     globals |-> <<>>, locals |-> <<>>, handle |-> "idle", ouf |-> <<>>,
     stack |-> <<>>, status |-> "idle"]

InitRenders ==
    /\ taxtables = TaxTables
    /\ CalcIdle
    /\ CopyIdle
    /\ book = <<>>
    /\ pc = "invoices"
    /\ pos = 1
    /\ heap = <<>>
    /\ invoices = EmptyMap
    /\ invoices_ = EmptyMap
    /\ entries = EmptyMap
    /\ options \in Options
    /\ call = NoCall
    /\ sink = None
    /\ result = "idle"
    /\ previous = NoFrame

\* createInvoice(invoiceid, template, outfile) called by the running thread, its one
\* call; the file it writes is not the file of the other thread
StartRender ==
    /\ pc = "done"
    /\ result = "idle"
    /\ \E c \in Calls :
           /\ call' = c
           /\ Create(c)
    /\ sink' # None => sink' # previous.sink
    /\ UNCHANGED <<taxtables, calcVars, options, previous, book, pc, pos, invoices, invoices_, entries>>

\* the interpreter leaves the running thread for the other one, between any two
\* steps of the calls
Switch ==
    /\ pc = "done"
    /\ previous' = Frame
    /\ call' = previous.call
    /\ sink' = previous.sink
    /\ result' = previous.result
    /\ block' = previous.block
    /\ globals' = previous.globals
    /\ locals' = previous.locals
    /\ handle' = previous.handle
    /\ ouf' = previous.ouf
    /\ stack' = previous.stack
    /\ status' = previous.status
    /\ UNCHANGED <<taxtables, calcVars, parseVars, options>>

NextRenders ==
    \/ ParseInvoice \/ StartEntries \/ ParseInvoiceEntry \/ SortEntries
    \/ StartRender \/ Switch \/ Copy \/ CopyLine \/ BlockReturn

SpecRenders == InitRenders /\ [][NextRenders]_vars

(************************ properties of the resolver ************************)

Resolved == outcome = "returned"

ValidHow(e)  == e.discount_how \in {"PRETAX", "SAMETIME", "POSTTAX"}
ValidType(e) == e.discount_type \in {"PERCENT", "VALUE"}

\* the tax table the entry refers to
TableOf(e) == taxtables[e.taxtable]

C4_WarningFlag ==
    Resolved /\ entry.taxincluded = 0 =>
        /\ entry.discount_how = "POSTTAX" /\ DPos(entry.amount_discount)
               => entry.warndiscount
        /\ entry.discount_how = "PRETAX" => ~entry.warndiscount

C4_Witness ==
    /\ Resolved
    /\ entry.taxincluded = 0
    /\ entry.discount_how = "POSTTAX"
    /\ DPos(entry.amount_discount)
    /\ entry.warndiscount

\* C5: not taxable and no discount: net, gross and raw are all qty * price, taxes
\* and discount are zero and the flag is not set, whatever the other fields
C5_PlainEntry ==
    outcome # "new" /\ entry.taxable = 0 /\ entry.discount = NoDec =>
        /\ Resolved
        /\ entry.amount_raw = DMul(entry.qty, entry.price)
        /\ entry.amount_net = entry.amount_raw
        /\ entry.amount_gross = entry.amount_raw
        /\ entry.amount_taxes = D0
        /\ entry.amount_discount = D0
        /\ ~entry.warndiscount

\* a plain entry that still carries a tax table and the tax-included flag
C5_Witness ==
    /\ Resolved
    /\ entry.taxable = 0 /\ entry.discount = NoDec
    /\ entry.taxtable = "t30" /\ entry.taxincluded = 1
    /\ entry.amount_net = entry.amount_raw

\* C6: not taxable, PERCENT discount d applied PRETAX: raw = qty * price, the
\* discount amount is d % of raw, net = gross = raw - discount amount, taxes = 0;
\* for qty 3, price 0.4, d 10: raw 1.2, discount 0.12, net = gross = 1.08
C6_PercentPretax ==
    /\ outcome # "new" /\ entry.taxable = 0 /\ entry.discount # NoDec
       /\ entry.discount_type = "PERCENT" /\ entry.discount_how = "PRETAX" =>
          /\ Resolved
          /\ entry.amount_raw = DMul(entry.qty, entry.price)
          /\ entry.amount_discount = DDiv(DMul(entry.discount, entry.amount_raw), D100)
          /\ entry.amount_net = DSub(entry.amount_raw, entry.amount_discount)
          /\ entry.amount_gross = entry.amount_net
          /\ entry.amount_taxes = D0
    /\ outcome # "new" /\ entry.taxable = 0
       /\ entry.qty = Dec(3, 0) /\ entry.price = Dec(4, -1) /\ entry.discount = Dec(10, 0)
       /\ entry.discount_type = "PERCENT" /\ entry.discount_how = "PRETAX" =>
          /\ entry.amount_raw = Dec(12, -1)
          /\ entry.amount_discount = Dec(12, -2)
          /\ entry.amount_net = Dec(108, -2)
          /\ entry.amount_gross = Dec(108, -2)
          /\ entry.amount_taxes = D0

\* the entry of the docstring, resolved
C6_Witness ==
    /\ Resolved /\ entry.taxable = 0
    /\ entry.qty = Dec(3, 0) /\ entry.price = Dec(4, -1) /\ entry.discount = Dec(10, 0)
    /\ entry.discount_type = "PERCENT" /\ entry.discount_how = "PRETAX"
    /\ entry.amount_net = Dec(108, -2)

\* percent_sum >= -100, resp. > -100
PercentAtLeastMinus100(t) == ~DSub(t.percent_sum, Dec(-100, 0)).neg
PercentAboveMinus100(t)   == DPos(DSub(t.percent_sum, Dec(-100, 0)))

\* C7 as claimed: with a tax table of percent_sum >= -100 the only exception of
\* the resolver is the validation error: it never divides by zero
C7_Claimed ==
    outcome # "new" /\ entry.taxtable # None /\ PercentAtLeastMinus100(TableOf(entry))
        => outcome \in {"returned", "GcinvoiceError"}

\* C7: the same for percent_sum > -100, and then the divisor is not zero
C7_TotalAboveMinus100 ==
    outcome # "new" /\ entry.taxtable # None /\ PercentAboveMinus100(TableOf(entry))
        => /\ outcome \in {"returned", "GcinvoiceError"}
           /\ ~IsZero(DAdd(D1, DDiv(TableOf(entry).percent_sum, D100)))

\* a division by the divisor next to its pole: percent_sum = -99.99
C7_Witness ==
    /\ Resolved
    /\ entry.taxable = 1 /\ entry.taxtable = "tm99" /\ entry.taxincluded = 1
    /\ entry.discount_how = "POSTTAX"
    /\ entry.amount_net # NoDec

\* C9 as claimed: a discount that is present, zero included, with a timing or a
\* kind outside the enumerations makes the resolver raise GcinvoiceError
C9_Claimed ==
    outcome # "new" /\ entry.discount # NoDec
        /\ (~ValidHow(entry) \/ ~ValidType(entry))
        => outcome = "GcinvoiceError"

\* C9: the resolver raises GcinvoiceError exactly for a discount that is present
\* and not zero with a timing or a kind outside the enumerations; an entry with no
\* discount or a discount of zero is exempt
C9_ValidationOfNonZeroDiscount ==
    outcome # "new" =>
        (outcome = "GcinvoiceError" <=>
            /\ entry.discount # NoDec
            /\ entry.discount # D0
            /\ (~ValidHow(entry) \/ ~ValidType(entry)))

C9_Witness ==
    /\ outcome = "GcinvoiceError"
    /\ entry.discount = Dec(5, 0)
    /\ entry.discount_how = "OTHER" /\ entry.discount_type = "PERCENT"

(*************************** properties of parse ****************************)

\* the entry elements parse has been through
Processed == 1..(pos - 1) \cap DOMAIN book

\* the resolver rejects the entry: a discount with a timing or a kind outside the
\* enumerations
BadPolicy(raw) ==
    /\ raw.discount # NoDec /\ raw.discount # D0
    /\ (~ValidHow(raw) \/ ~ValidType(raw))

\* parse reads the element in full and knows its invoice and its tax table
Readable(raw) ==
    /\ raw.invoice \in DOMAIN invoices_
    /\ ~Unreadable(raw)
    /\ raw.taxable # 0 /\ raw.taxtable # None => raw.taxtable \in DOMAIN taxtables

\* the divisor 1 + percent_sum/100 of the entry is zero
ZeroDivisor(raw) ==
    /\ raw.taxable # 0 /\ raw.taxtable \in DOMAIN taxtables
    /\ taxtables[raw.taxtable].percent_sum = Dec(-100, 0)

\* the entry of guid k is in the entry list of an invoice
Listed(k) == \E i \in DOMAIN heap : \E j \in DOMAIN heap[i].entries :
                 heap[i].entries[j].guid = k

\* the entry of guid k is resolved, in the entries map and in the list of its invoice
Included(k) ==
    /\ k \in DOMAIN entries
    /\ entries[k].amount_gross # NoDec
    /\ \E j \in DOMAIN heap[invoices_[book[k].invoice]].entries :
           heap[invoices_[book[k].invoice]].entries[j] = entries[k]

\* C10: an entry the resolver rejects gets into neither the entries map nor the
\* entry list of any invoice; parse does not end with its exception; and every other
\* entry parse can read and resolve, before or after it, is resolved and included
C10_RejectedEntryDropped ==
    /\ \A k \in Processed :
           /\ Readable(book[k]) /\ BadPolicy(book[k]) =>
                  k \notin DOMAIN entries /\ ~Listed(k)
           /\ Readable(book[k]) /\ ~BadPolicy(book[k]) => Included(k)
    /\ pc = "raised" => ~BadPolicy(book[pos]) /\ ZeroDivisor(book[pos])

\* parse is through a file of three entries of one invoice, the second one rejected
C10_Witness ==
    /\ pc = "done"
    /\ Len(book) = 3
    /\ \A k \in 1..3 : book[k].invoice = "g1" /\ Readable(book[k])
    /\ BadPolicy(book[2])
    /\ Included(1) /\ Included(3) /\ ~Listed(2)

(****************** properties of the template interpreter ******************)

\* the nesting the scan from the begin line b has at line j
Nesting(b, j) ==
    1 + Cardinality({n \in (b + 1)..j : block[n + 1].kind = "begin"})
      - Cardinality({n \in (b + 1)..j : block[n + 1].kind = "end"})

\* line b begins a block that no line of the template ends
Unterminated(b) ==
    /\ block[b + 1].kind = "begin"
    /\ \A j \in (b + 1)..(Len(block) - 1) : Nesting(b, j) > 0

Positions == 0..(Len(block) - 1)

ForElseAt(b, e, d) ==
    /\ b < e /\ e < d
    /\ block[b + 1].stat = "for x in seq:"
    /\ block[e + 1].kind = "cont"
    /\ block[d + 1].kind = "end"
    /\ \A n \in Positions \ {b, e, d} : block[n + 1].kind = "text"

\* the text lines lo .. hi-1 as they are written when x evaluates to x
TextLines(lo, hi, x) ==
    [n \in 1..(hi - lo) |-> [line |-> lo + n - 1, text |-> <<x, "C">>]]

\* the lines lo .. hi-1 written for each of the first k elements, in their order
RECURSIVE Passes(_, _, _)
Passes(lo, hi, k) ==
    IF k = 0 THEN <<>>
    ELSE Passes(lo, hi, k - 1) \o TextLines(lo, hi, globals.seq[k])

\* what x evaluates to after the loop
LastX == IF globals.seq = <<>> THEN "x" ELSE globals.seq[Len(globals.seq)]

\* C3: a for statement with one else clause renders its body once for each element of
\* the sequence, in their order, and then the else clause once; for the empty sequence
\* it renders the else clause only. While the statement runs, the clause called is
\* the body until the elements are taken, and the else clause after
C3_ForElse ==
    /\ status = "returned" =>
           \A b, e, d \in Positions :
               ForElseAt(b, e, d) =>
                   ouf = TextLines(0, b, "x")
                         \o Passes(b + 1, e, Len(globals.seq))
                         \o TextLines(e + 1, d, LastX)
                         \o TextLines(d + 1, Len(block), LastX)
    /\ \A n \in DOMAIN stack :
           (stack[n].op = "exec" /\ IsFor(stack[n]) /\ Len(stack[n].segs) = 2) =>
               /\ stack[n].k <= Len(globals.seq)
               /\ stack[n].done => stack[n].k = Len(globals.seq)
               /\ n < Len(stack) =>
                      /\ ~stack[n].done => stack[n].k > 0
                      /\ stack[n + 1].last =
                             stack[n].segs[IF stack[n].done THEN 2 ELSE 1].hi

\* a for statement with a body and an else clause of one line each was rendered for a
\* sequence of two elements
C3_Witness ==
    /\ status = "returned"
    /\ globals.seq # <<>>
    /\ \E b, e, d \in Positions : ForElseAt(b, e, d) /\ e > b + 1 /\ d > e + 1
    /\ Len(ouf) = 3

\* the elements of the sequence
Elements == {globals.seq[n] : n \in DOMAIN globals.seq}

\* the lines of a template without statements, written with x failing
Plain ==
    [n \in DOMAIN block |->
        [line |-> n - 1,
         text |-> IF block[n].kind = "text" THEN <<"x", "C">> ELSE block[n].text]]

\* C8: in the render with createInvoice's handler a placeholder that fails to evaluate
\* raises nothing: the line is written with the expression in its place and its other
\* placeholder substituted, and the render goes on; a template of lines that start no
\* statement is written to its last line
C8_FailedPlaceholder ==
    handle = "expr" =>
        /\ status # "NameError"
        /\ \A n \in DOMAIN ouf :
               block[ouf[n].line + 1].kind = "text" =>
                   /\ ouf[n].text[2] = "C"
                   /\ ouf[n].text[1] \in {"x"} \cup Elements
                   /\ "x" \notin DOMAIN locals => ouf[n].text[1] = "x"
        /\ (status = "returned" /\ \A b \in Positions : block[b + 1].kind # "begin") =>
               ouf = Plain

\* a line was written with the failed expression in its place, and a later line after
\* it, and the render returned
C8_Witness ==
    /\ handle = "expr"
    /\ status = "returned"
    /\ \E n, m \in DOMAIN ouf :
           /\ ouf[n].text = <<"x", "C">>
           /\ ouf[m].line > ouf[n].line

(************************ further properties of parse ************************)

\* what the resolver makes of the element at place k of the file when it is called
\* on that element alone, with the tax tables as the file gives them
Alone(k) == CalcTaxDiscount(EntryDict(book[k]), TaxTables).entry

\* C13: the entries of one tax table refer to the one aggregate of self.taxtables, no
\* call of the resolver changes an aggregate, and so every entry parse keeps holds
\* the fields the resolver computes for it alone, whatever entries were resolved
\* before it; the entries are looked at when parse has ended, after any number of
\* elements
C13_TaxTablesShared ==
    /\ taxtables = TaxTables
    /\ pc \in {"done", "raised"} =>
           \A k \in DOMAIN entries :
               /\ entries[k].taxtable # None => entries[k].taxtable \in DOMAIN taxtables
               /\ entries[k] = [Alone(k) EXCEPT !.warndiscount = FALSE]

\* parse is through a file with two entries of the same tax table, both kept
C13_Witness ==
    /\ pc = "done"
    /\ \E k, l \in DOMAIN entries :
           /\ k < l
           /\ entries[k].taxtable = "t19"
           /\ entries[l].taxtable = "t19"


\* the entries of the list are in ascending order of their 'entered' time
Ascending(list) ==
    \A i, j \in DOMAIN list : i < j => list[i].entered <= list[j].entered

\* the invoice dicts parse keeps: the values of self.invoices and of self.invoices_
KeptInvoices ==
    {invoices[id] : id \in DOMAIN invoices} \cup {invoices_[g] : g \in DOMAIN invoices_}

\* C14 as claimed: after parse the entry list of every invoice kept in the map by id
\* or in the map by guid is in ascending order of the entries' 'entered' time
C14_Claimed ==
    pc = "done" => \A i \in KeptInvoices : Ascending(heap[i].entries)


\* C16: an invoice carries the flag _warndiscount exactly when the resolver set the
\* flag on one of the entries in the invoice's list; an invoice with no such entry,
\* or with no entry, does not carry it; the invoices are looked at when parse has
\* ended, after any number of elements
C16_InvoiceWarningFlag ==
    pc \in {"done", "raised"} =>
        \A i \in DOMAIN heap :
            heap[i].warndiscount <=>
                \E j \in DOMAIN heap[i].entries :
                    Alone(heap[i].entries[j].guid).warndiscount

\* parse is through a file that has an invoice with a flagged entry followed by an
\* entry without flag, and an invoice with an entry and no flag
C16_Witness ==
    /\ pc = "done"
    /\ \E i \in DOMAIN heap :
           /\ heap[i].warndiscount
           /\ \E j, l \in DOMAIN heap[i].entries :
                  /\ heap[i].entries[j].guid < heap[i].entries[l].guid
                  /\ Alone(heap[i].entries[j].guid).warndiscount
                  /\ ~Alone(heap[i].entries[l].guid).warndiscount
    /\ \E i \in DOMAIN heap : ~heap[i].warndiscount /\ heap[i].entries # <<>>


(************** further properties of the template interpreter **************)

\* the template is text, an if statement at line b with its else at line e and its
\* end at line d, and text
IfElseAt(b, e, d) ==
    /\ b < e /\ e < d
    /\ block[b + 1].stat = "if seq:"
    /\ block[e + 1].kind = "cont"
    /\ block[d + 1].kind = "end"
    /\ \A n \in Positions \ {b, e, d} : block[n + 1].kind = "text"

\* C17: an if statement with one else clause renders one of its two segments, once:
\* the first when the condition holds, the else segment when it does not; the lines
\* of the other segment are not written. While the statement runs, the one clause it
\* calls is that one
C17_IfElse ==
    /\ status = "returned" =>
           \A b, e, d \in Positions :
               IfElseAt(b, e, d) =>
                   ouf = TextLines(0, b, "x")
                         \o (IF globals.seq # <<>>
                             THEN TextLines(b + 1, e, "x")
                             ELSE TextLines(e + 1, d, "x"))
                         \o TextLines(d + 1, Len(block), "x")
    /\ \A n \in DOMAIN stack :
           (stack[n].op = "exec" /\ ~IsFor(stack[n]) /\ Len(stack[n].segs) = 2
                /\ n < Len(stack)) =>
               /\ stack[n].done
               /\ stack[n + 1].last =
                      stack[n].segs[IF globals.seq # <<>> THEN 1 ELSE 2].hi

\* an if statement with two segments of one line each was rendered with the
\* condition false: the line of the else segment is the one line written
C17_Witness ==
    /\ status = "returned"
    /\ globals.seq = <<>>
    /\ \E b, e, d \in Positions : IfElseAt(b, e, d) /\ e = b + 2 /\ d = e + 2
    /\ Len(ouf) = 1
    /\ ouf[1].line = 3


(********************* further properties of the resolver *********************)

\* the reference table of the tax-exclusive case, for the raw amount raw, the discount
\* amount da and the tax table t
RefFactor(t) == DAdd(D1, DDiv(t.percent_sum, D100))
RefRawGross(raw, t) == DAdd(DMul(raw, RefFactor(t)), t.value_sum)
RefDiscount(type, discount, base) ==
    IF type = "VALUE" THEN discount ELSE DDiv(DMul(discount, base), D100)
RefPretax(da, raw, t) ==
    [amount_discount |-> da,
     amount_net      |-> DSub(raw, da),
     amount_gross    |-> DAdd(DMul(DSub(raw, da), RefFactor(t)), t.value_sum)]
RefSametime(da, raw, t) ==
    [amount_discount |-> da,
     amount_net      |-> DSub(raw, da),
     amount_gross    |-> DSub(RefRawGross(raw, t), da)]
RefPosttax(da, rawGross, t) ==
    [amount_discount |-> da,
     amount_gross    |-> DSub(rawGross, da),
     amount_net      |-> DDiv(DSub(DSub(rawGross, da), t.value_sum), RefFactor(t))]
Reference(how, type, discount, raw, t) ==
    CASE how = "PRETAX"   -> RefPretax(RefDiscount(type, discount, raw), raw, t)
      [] how = "SAMETIME" -> RefSametime(RefDiscount(type, discount, raw), raw, t)
      [] how = "POSTTAX"  -> RefPosttax(RefDiscount(type, discount, RefRawGross(raw, t)),
                                        RefRawGross(raw, t), t)

\* the entry is taxable with a tax table, its tax not included, and has a discount
\* with a timing and a kind of the enumerations
TaxExclusive(e) ==
    /\ e.taxable # 0 /\ e.taxincluded = 0 /\ e.taxtable # None
    /\ e.discount # NoDec /\ ValidHow(e) /\ ValidType(e)

\* the division of the POSTTAX row is defined
RefDefined(e) == e.discount_how = "POSTTAX" => ~IsZero(RefFactor(TableOf(e)))

Called == pc = "done" /\ call # NoCall
Found == IntId(call.invoiceid) \in DOMAIN invoices
OwnerName == IF Found THEN heap[invoices[IntId(call.invoiceid)]].owner ELSE None

\* there is no template: none given, none configured for the owner, no default
NoTemplate ==
    /\ call.template = None
    /\ OwnerName \notin DOMAIN options.templates
    /\ "default" \notin DOMAIN options.templates

\* C11: a call of createInvoice with no template argument, no template configured
\* for the owner of the invoice and no 'default' template ends with GcinvoiceError,
\* and no file has been opened and no line written by then
C11_NoTemplate ==
    Called /\ NoTemplate => result = "GcinvoiceError" /\ sink = None /\ ouf = <<>>

\* such a call for an invoice of the file, made with a destination, after a call
\* that has rendered its template
C11_Witness ==
    /\ Called /\ Found /\ NoTemplate
    /\ call.outfile # None
    /\ result = "GcinvoiceError"
    /\ previous.outcome = "returned" /\ previous.ouf # <<>>


\* there is no destination: none given, none configured for the owner, no default
NoOutfile ==
    /\ call.outfile = None
    /\ OwnerName \notin DOMAIN options.outfiles
    /\ "default" \notin DOMAIN options.outfiles

\* C12 as the claim has it: a call of createInvoice with no outfile argument, no
\* outfile configured for the owner and no 'default' outfile ends with an error,
\* and no line of the template is rendered
C12_Claimed ==
    Called /\ NoOutfile => result = "GcinvoiceError" /\ ouf = <<>>

\* C12: a call of createInvoice with no outfile argument, no outfile configured for
\* the owner and no 'default' outfile, for an invoice of the file and with a
\* template, raises no error: the template is rendered to standard output, line by
\* line
C12_NoOutfileIsStdout ==
    Called /\ Found /\ ~NoTemplate /\ NoOutfile
        => /\ result = "rendering"
           /\ sink = "stdout"
           /\ status = "returned" => Len(ouf) = Len(block) /\ Len(block) > 0

\* such a call, its render through, once with the template an argument and once
\* with the template the options name
C12_Witness ==
    /\ Called /\ Found /\ ~NoTemplate /\ NoOutfile
    /\ status = "returned" /\ ouf # <<>>
    /\ call.template = None
    /\ previous.call.template # None /\ previous.sink = "stdout"


\* the dict of the invoice the call is for, as parse left it; and its entries
Invoice == heap[invoices[IntId(call.invoiceid)]]
Entries == Invoice.entries

\* the call has built the dict of its main render
Built == Called /\ result = "rendering"

\* the three totals are the sums of the raw amounts of the entries of the invoice,
\* added one by one from the left in Decimal arithmetic, 0 where there is none
TotalsAreSums ==
    /\ globals.amount_net_ = Sum(Entries, "amount_net", Len(Entries))
    /\ globals.amount_gross_ = Sum(Entries, "amount_gross", Len(Entries))
    /\ globals.amount_taxes_ = Sum(Entries, "amount_taxes", Len(Entries))
    /\ Entries = <<>> => globals.amount_net_ = D0 /\ globals.amount_gross_ = D0
                         /\ globals.amount_taxes_ = D0

\* a + b has no more than Prec digits, so that Decimal does not round it
Unrounded(a, b) == Len(StripLead(ExactAdd(a, b).dig)) <= Prec

\* none of the additions of the sum of the first k entries is rounded
RECURSIVE SumUnrounded(_, _, _)
SumUnrounded(list, key, k) ==
    \/ k = 0
    \/ /\ SumUnrounded(list, key, k - 1)
       /\ Unrounded(Sum(list, key, k - 1), list[k][key])

\* no subtraction and no addition behind the totals is rounded
NothingRounded ==
    /\ \A n \in DOMAIN Entries :
           Unrounded(Entries[n].amount_gross, DNeg(Entries[n].amount_net))
    /\ SumUnrounded(Entries, "amount_net", Len(Entries))
    /\ SumUnrounded(Entries, "amount_gross", Len(Entries))
    /\ SumUnrounded(Entries, "amount_taxes", Len(Entries))
    /\ Unrounded(globals.amount_gross_, DNeg(globals.amount_net_))

\* C15 as the claim has it: the raw totals of the render context are the sums of
\* the raw amounts of the entries of the invoice, and amount_gross_ - amount_net_
\* == amount_taxes_
C15_Claimed ==
    Built => /\ TotalsAreSums
             /\ DSub(globals.amount_gross_, globals.amount_net_) = globals.amount_taxes_

\* C15: the raw totals of the render context are the sums of the raw amounts of the
\* entries of the invoice (0 for an invoice with no entries), and amount_gross_ -
\* amount_net_ == amount_taxes_ where no addition and no subtraction behind them
\* is rounded to the 28 digits of the Decimal context
C15_TotalsUnrounded ==
    Built => /\ TotalsAreSums
             /\ NothingRounded =>
                    DSub(globals.amount_gross_, globals.amount_net_) = globals.amount_taxes_

\* an invoice of three entries, one of them with the tax included, none of its sums
\* rounded
C15_Witness ==
    /\ Built /\ Len(Entries) = 3 /\ NothingRounded
    /\ \E n \in DOMAIN Entries : Entries[n].taxincluded # 0
    /\ globals.amount_taxes_ # D0


\* the fields of an entry that hold money, each with its name with an underscore
MoneyNames ==
    { <<"price", "price_">>, <<"amount_raw", "amount_raw_">>,
      <<"amount_net", "amount_net_">>, <<"amount_gross", "amount_gross_">>,
      <<"amount_taxes", "amount_taxes_">>, <<"amount_discount", "amount_discount_">> }
TotalNames ==
    { <<"amount_net", "amount_net_">>, <<"amount_gross", "amount_gross_">>,
      <<"amount_taxes", "amount_taxes_">> }

\* C18: in the dict the template is rendered with, each total and each of price,
\* amount_raw, amount_net, amount_gross, amount_taxes, amount_discount and qty of
\* each entry has the raw Decimal under the name with an underscore (the sum of the
\* entries, resp. the value parse stored) and under the plain name cformat of that
\* value, qformat for qty, where cformat and qformat are the functions of the
\* options when these give one and the built-in formatting otherwise
C18_RawAndFormatted ==
    Built =>
        /\ \A x \in TotalNames :
               /\ globals[x[2]] = Sum(Entries, x[1], Len(Entries))
               /\ globals[x[1]] = cformat(options, globals[x[2]])
        /\ DOMAIN globals.entries = DOMAIN Entries
        /\ \A n \in DOMAIN Entries :
               /\ \A x \in MoneyNames :
                      /\ globals.entries[n][x[2]] = Entries[n][x[1]]
                      /\ globals.entries[n][x[1]] = cformat(options, globals.entries[n][x[2]])
               /\ globals.entries[n].qty_ = Entries[n].qty
               /\ globals.entries[n].qty = qformat(options, globals.entries[n].qty_)
        /\ options.cformat # None => globals.amount_net = [text |-> options.cformat]
        /\ options.cformat = None =>
               globals.amount_net = Formatting(globals.amount_net_, options.currency_precision)

\* a render with a cformat of the caller and the built-in qformat, for an invoice of
\* two entries, one of them with an amount of 28 digits
C18_Witness ==
    /\ Built /\ Len(Entries) = 2
    /\ options.cformat # None /\ options.qformat = None
    /\ \E n \in DOMAIN Entries : Len(globals.entries[n].amount_net_.dig) = Prec
    /\ globals.entries[1].qty.places = 0

\* the call has ended: it raised, or its render returned
Finished == result = "GcinvoiceError" \/ (result = "rendering" /\ status = "returned")

\* C19: no step of createInvoice or of its render changes what parse stored (the
\* invoice dicts, the entries, the tax tables, the two maps of the invoices), and a
\* call with the arguments of the call before it ends as that one did: the same
\* lines written to the same destination, or the same error
C19_FreshCopy ==
    [][/\ pc = "done" =>
              /\ heap' = heap /\ entries' = entries /\ taxtables' = taxtables
              /\ invoices' = invoices /\ invoices_' = invoices_
       /\ Finished' /\ previous'.call = call' =>
              /\ ouf' = previous'.ouf
              /\ sink' = previous'.sink
              /\ Outcome' = previous'.outcome]_vars

\* a render that has written its lines, of a call made twice in a row
C19_Witness ==
    /\ Called /\ Finished /\ result = "rendering"
    /\ Len(Entries) = 2 /\ ouf # <<>>
    /\ previous.call = call /\ previous.ouf = ouf


\* the reference table of the tax-inclusive case, for the raw amount raw, the discount
\* amount da and the tax table t
RefRawNet(raw, t) == DDiv(DSub(raw, t.value_sum), RefFactor(t))
RefInclPretax(da, rawNet, t) ==
    [amount_discount |-> da,
     amount_net      |-> DSub(rawNet, da),
     amount_gross    |-> DAdd(DMul(DSub(rawNet, da), RefFactor(t)), t.value_sum)]
RefInclSametime(da, rawNet, raw) ==
    [amount_discount |-> da,
     amount_net      |-> DSub(rawNet, da),
     amount_gross    |-> DSub(raw, da)]
RefInclPosttax(da, raw, t) ==
    [amount_discount |-> da,
     amount_gross    |-> DSub(raw, da),
     amount_net      |-> DDiv(DSub(DSub(raw, da), t.value_sum), RefFactor(t))]
ReferenceIncl(how, type, discount, raw, t) ==
    CASE how = "PRETAX"   -> RefInclPretax(RefDiscount(type, discount, RefRawNet(raw, t)),
                                           RefRawNet(raw, t), t)
      [] how = "SAMETIME" -> RefInclSametime(RefDiscount(type, discount, RefRawNet(raw, t)),
                                             RefRawNet(raw, t), raw)
      [] how = "POSTTAX"  -> RefInclPosttax(RefDiscount(type, discount, raw), raw, t)

\* the entry is taxable with a tax table, its tax included, and has a discount with a
\* timing and a kind of the enumerations
TaxInclusive(e) ==
    /\ e.taxable # 0 /\ e.taxincluded # 0 /\ e.taxtable # None
    /\ e.discount # NoDec /\ ValidHow(e) /\ ValidType(e)

\* the resolved entry has the three amounts of the reference table and, for POSTTAX,
\* the flag exactly when the discount amount is not zero
AsReferenceIncl(e) ==
    /\ e.amount_discount =
           ReferenceIncl(e.discount_how, e.discount_type, e.discount,
                         DMul(e.qty, e.price), TableOf(e)).amount_discount
    /\ e.amount_net =
           ReferenceIncl(e.discount_how, e.discount_type, e.discount,
                         DMul(e.qty, e.price), TableOf(e)).amount_net
    /\ e.amount_gross =
           ReferenceIncl(e.discount_how, e.discount_type, e.discount,
                         DMul(e.qty, e.price), TableOf(e)).amount_gross
    /\ e.warndiscount <=> (e.discount_how = "POSTTAX" /\ ~IsZero(e.amount_discount))

\* C21 as the claim has it: for a taxable entry with a tax table and the tax included
\* the resolver returns the amounts of the reference table for the timing and the
\* kind of the discount, whatever the discount
C21_Claimed ==
    (outcome = "returned" /\ TaxInclusive(entry)) => AsReferenceIncl(entry)

\* C21: for a taxable entry with a tax table, the tax included and a discount that is
\* not zero the resolver computes amount_discount, amount_net, amount_gross and the
\* flag as the reference table gives them for the timing and the kind of the
\* discount, wherever the division by 1 + p/100 is defined, and fails only where it
\* is not; a discount of zero is resolved as the PRETAX row whatever its timing
C21_TaxInclusiveTable ==
    (outcome # "new" /\ TaxInclusive(entry)) =>
        /\ outcome = "returned" <=> ~IsZero(RefFactor(TableOf(entry)))
        /\ (outcome = "returned" /\ ~IsZero(entry.discount)) => AsReferenceIncl(entry)
        /\ (outcome = "returned" /\ IsZero(entry.discount)) =>
               AsReferenceIncl([entry EXCEPT !.discount_how = "PRETAX",
                                             !.discount_type = "PERCENT"])

\* a SAMETIME discount of 5 percent on an entry with a tax of 30 percent plus 50
\* included is resolved
C21_Witness ==
    /\ outcome = "returned"
    /\ TaxInclusive(entry)
    /\ entry.taxtable = "t30"
    /\ entry.discount_how = "SAMETIME"
    /\ entry.discount_type = "PERCENT"
    /\ entry.discount = Dec(5, 0)
    /\ entry.amount_gross # entry.amount_raw


\* the entry is not taxable, or has no tax table
Untaxed(e) == e.taxable = 0 \/ e.taxtable = None

\* a tax table of nothing, and the entry e as a taxable one of that table, its tax
\* not included
ZeroTables == [t0 |-> TaxTable(D0, D0)]
OfZeroTable(e) ==
    [e EXCEPT !.taxable = 1, !.taxincluded = 0, !.taxtable = "t0", !.warndiscount = FALSE]

\* the entry e with the other value of its tax-inclusive flag
Flipped(e) == [e EXCEPT !.taxincluded = 1 - @, !.warndiscount = FALSE]

\* the fields the resolver computes
Computed(e) ==
    <<e.amount_raw, e.amount_discount, e.amount_net, e.amount_gross, e.amount_taxes,
      e.warndiscount>>

\* C22: an entry that is not taxable, or is taxable without a tax table, is resolved
\* as a taxable entry of a table with percent_sum 0 and value_sum 0 whose tax is not
\* included: the call ends the same way with the same computed fields, amount_taxes
\* is zero and amount_gross equals amount_net whatever the discount, and the entry
\* with the other value of taxincluded is resolved to the same fields
C22_UntaxedAsZeroTable ==
    (outcome # "new" /\ Untaxed(entry)) =>
        /\ outcome = "returned" =>
               /\ IsZero(entry.amount_taxes)
               /\ entry.amount_gross = entry.amount_net
               /\ CalcTaxDiscount(OfZeroTable(entry), ZeroTables).err = None
               /\ Computed(CalcTaxDiscount(OfZeroTable(entry), ZeroTables).entry)
                      = Computed(entry)
               /\ CalcTaxDiscount(Flipped(entry), taxtables).err = None
               /\ Computed(CalcTaxDiscount(Flipped(entry), taxtables).entry)
                      = Computed(entry)
        /\ outcome # "returned" =>
               /\ CalcTaxDiscount(OfZeroTable(entry), ZeroTables).err = outcome
               /\ CalcTaxDiscount(Flipped(entry), taxtables).err = outcome

\* an entry that is not taxable although it names a tax table of 30 percent plus 50
\* and has its tax-inclusive flag set, resolved with a POSTTAX discount of 10 percent
C22_Witness ==
    /\ outcome = "returned"
    /\ entry.taxable = 0 /\ entry.taxtable = "t30" /\ entry.taxincluded = 1
    /\ entry.discount_how = "POSTTAX" /\ entry.discount_type = "PERCENT"
    /\ entry.discount = Dec(10, 0)
    /\ entry.warndiscount


(*************** the scan and the order of the lines: properties **************)

\* the frame at place n of the stack is a copyblock whose statement is being
\* executed, and the begin line of that statement
Executing(n) ==
    n < Len(stack) /\ stack[n].op = "copyblock" /\ stack[n + 1].op = "exec"
BeginOf(n) == stack[n + 1].segs[1].lo - 1

\* j is where the scan from the begin line b ends in the range up to last: the first
\* end line at which the counter is 0, else last
ScanEnd(b, j, last) ==
    /\ b < j /\ j <= last
    /\ \A m \in (b + 1)..(j - 1) : Nesting(b, m) >= 1
    /\ j < last => block[j + 1].kind = "end" /\ Nesting(b, j) = 0

\* C23: the scan from the line after a begin line counts the nesting from 1, up at
\* each begin line and down at each end line, and ends at the first end line where
\* the count is 0 (at the end of the range when there is none): the statement that
\* is executed is closed by its matching end line, never by the end line of a block
\* inside it
C23_MatchingEnd ==
    \A n \in DOMAIN stack :
        Executing(n) =>
            /\ block[BeginOf(n) + 1].kind = "begin"
            /\ ScanEnd(BeginOf(n), stack[n].j, stack[n].last)

\* a statement with a statement inside it is executed: the scan has passed the end
\* line of the inner one and stopped at its own
C23_Witness ==
    \E n \in DOMAIN stack :
        /\ Executing(n)
        /\ stack[n].j < stack[n].last
        /\ \E m \in (BeginOf(n) + 1)..(stack[n].j - 1) : block[m + 1].kind = "end"


\* the continuation lines the scan from the begin line b meets at count 1 before j
Splits(b, j) ==
    {m \in (b + 1)..(j - 1) : block[m + 1].kind = "cont" /\ Nesting(b, m) = 1}

\* segs are the clauses of the statement of line b that ends at j: one more than the
\* continuation lines at count 1, from the line after b to j, each from the line
\* after the continuation line that ends the one before it, with the text of the
\* begin line resp. of that continuation line
SplitAt(segs, b, j) ==
    /\ Len(segs) = Cardinality(Splits(b, j)) + 1
    /\ segs[1].lo = b + 1 /\ segs[1].stat = block[b + 1].stat
    /\ segs[Len(segs)].hi = j
    /\ \A k \in 1..(Len(segs) - 1) :
           /\ segs[k].hi \in Splits(b, j)
           /\ segs[k + 1].lo = segs[k].hi + 1
           /\ segs[k + 1].stat = block[segs[k].hi + 1].stat
    /\ \A k \in DOMAIN segs :
           /\ segs[k].lo <= segs[k].hi
           /\ \A m \in segs[k].lo..(segs[k].hi - 1) : m \notin Splits(b, j) \cup {b, j}

\* C24: a continuation line splits the statement exactly when the scan meets it at
\* count 1. The clauses are (begin+1, c1), (c1+1, c2), ..., (ck+1, end) for these
\* lines c1..ck in their order: one after the other, without the begin line, the
\* continuation lines and the end line, the first with the text of the begin line and
\* each other with the text of the continuation line before it. So it is for the
\* statement being executed and for the one exec has refused
C24_Clauses ==
    /\ \A n \in DOMAIN stack :
           Executing(n) => SplitAt(stack[n + 1].segs, BeginOf(n), stack[n].j)
    /\ status = "SyntaxError" =>
           SplitAt(Scan(block, Top.i, Top.last).segs, Top.i,
                   Scan(block, Top.i, Top.last).j)

\* a statement is executed that has a continuation line of its own and, before it, a
\* statement inside it
C24_Witness ==
    \E n \in DOMAIN stack :
        /\ Executing(n)
        /\ Len(stack[n + 1].segs) = 2
        /\ \E m \in (BeginOf(n) + 1)..(stack[n + 1].segs[1].hi - 1) :
               block[m + 1].kind = "begin"


\* how many statements are open before line m, and at line m when it is an end line
Depth(m) ==
    Cardinality({n \in 0..(m - 1) : block[n + 1].kind = "begin"})
      - Cardinality({n \in 0..(m - 1) : block[n + 1].kind = "end"})

\* every end line ends a statement, every continuation line is inside one, and every
\* statement is ended
WellNested ==
    /\ \A m \in Positions :
           block[m + 1].kind \in {"end", "cont"} => Depth(m) >= 1
    /\ Depth(Len(block)) = 0

\* line m is no marker and outside every statement
Outside(m) == block[m + 1].kind = "text" /\ Depth(m) = 0

\* what is written is never a marker line; a line outside every statement is written
\* after every line above it and before every line below it, so at most once; the
\* name c is substituted in every line written; and a render that returned has
\* written every line outside every statement
InOrder ==
    /\ \A n \in DOMAIN ouf :
           /\ block[ouf[n].line + 1].kind = "text"
           /\ ouf[n].text[2] = "C"
    /\ \A n, m \in DOMAIN ouf :
           (n < m /\ (Outside(ouf[n].line) \/ Outside(ouf[m].line))) =>
               ouf[n].line < ouf[m].line
    /\ status = "returned" =>
           \A t \in Positions : Outside(t) => \E n \in DOMAIN ouf : ouf[n].line = t

\* a step that ends an exec leaves its caller at the line after the end line of the
\* statement, and a copyblock goes from line to line within its range
Resumes ==
    /\ (Running("exec") /\ Len(stack') = Len(stack) - 1) =>
           /\ block[stack[Len(stack) - 1].j + 1].kind = "end"
           /\ stack'[Len(stack')].i = stack[Len(stack) - 1].j + 1
    /\ (Running("copyblock") /\ Len(stack') = Len(stack) /\ status' = "running") =>
           /\ stack'[Len(stack')].i = Top.i + 1
           /\ stack'[Len(stack')].i <= Top.last

\* C25: in the render of a well-nested template no begin, continuation or end line
\* is written, the lines outside every statement are substituted and written once
\* each, in the order of the template relative to every other line written, and
\* after a statement is executed its caller goes on at the line after its end line
C25_LinesInOrder ==
    /\ [](WellNested => InOrder)
    /\ [][WellNested => Resumes]_vars

\* a render returned that wrote a line, then the body of a loop twice, then the line
\* after the end line
C25_Witness ==
    /\ WellNested
    /\ status = "returned"
    /\ Len(ouf) = 4
    /\ Outside(ouf[1].line) /\ Outside(ouf[4].line)
    /\ ouf[2].line = ouf[3].line
    /\ block[ouf[4].line].kind = "end"


\* no invocation of copyblock sets its index back, and each turn of its loop, a line
\* written or a statement executed, sets it forward
Forward ==
    /\ \A n \in DOMAIN stack :
           (n <= Len(stack') /\ stack[n].op = "copyblock") => stack'[n].i >= stack[n].i
    /\ (/\ stack' # <<>> /\ stack' # stack /\ Len(stack') <= Len(stack)
        /\ stack'[Len(stack')].op = "copyblock") =>
           stack'[Len(stack')].i > stack[Len(stack')].i

\* the clauses of a statement being executed lie behind its begin line and end at or
\* before the line its scan ended at, within the range of the invocation, and the
\* range of a clause that is called is the range of one of them
SubRanges ==
    \A n \in DOMAIN stack :
        Executing(n) =>
            /\ stack[n].j <= stack[n].last
            /\ \A k \in DOMAIN stack[n + 1].segs :
                   /\ BeginOf(n) < stack[n + 1].segs[k].lo
                   /\ stack[n + 1].segs[k].lo <= stack[n + 1].segs[k].hi
                   /\ stack[n + 1].segs[k].hi <= stack[n].j
            /\ n + 2 <= Len(stack) =>
                   \E k \in DOMAIN stack[n + 1].segs :
                       /\ stack[n + 2].last = stack[n + 1].segs[k].hi
                       /\ stack[n + 2].i >= stack[n + 1].segs[k].lo

\* the render ends
Terminated == status \notin {"new", "running"}

RangeStart(n) ==
    IF n = 1 THEN 0
    ELSE (CHOOSE s \in {stack[n - 1].segs[k] : k \in DOMAIN stack[n - 1].segs} :
              s.hi = stack[n].last).lo

\* the line m of the range lo..last-1 is an end or a continuation line, and every
\* statement that begins before it in the range has its end line before it
Stray(m, lo, last) ==
    /\ block[m + 1].kind \in {"end", "cont"}
    /\ \A b \in lo..(m - 1) :
           block[b + 1].kind = "begin" => Scan(block, b, last).j < m

\* the innermost invocation of copyblock is at an end or a continuation line
AtMarker ==
    /\ Running("copyblock")
    /\ Top.i < Top.last
    /\ block[Top.i + 1].kind \in {"end", "cont"}

\* the line the innermost invocation is at is written as it is, and the next line
\* is the one to come
WrittenAsText ==
    /\ ouf' = Append(ouf, [line |-> Top.i, text |-> block[Top.i + 1].text])
    /\ stack' = [stack EXCEPT ![Len(stack)].i = Top.i + 1]
    /\ status' = "running"

\* C28: an end or a continuation line that copyblock comes to is one outside every
\* statement of its range; the step taken there raises nothing, writes the line like
\* a line of text and goes on with the next line; and a render that returned has
\* written every such line of the template
C28_StrayMarkerIsText ==
    /\ [](/\ AtMarker => Stray(Top.i, RangeStart(Len(stack)), Top.last)
          /\ status = "returned" =>
                 \A m \in Positions :
                     Stray(m, 0, Len(block)) =>
                         \E n \in DOMAIN ouf :
                             ouf[n] = [line |-> m, text |-> block[m + 1].text])
    /\ [][AtMarker => WrittenAsText]_vars

\* a render returned that wrote an end line, a continuation line and a line of text
\* behind them
C28_Witness ==
    /\ status = "returned"
    /\ \E n, k, t \in DOMAIN ouf :
           /\ n < t /\ k < t
           /\ block[ouf[n].line + 1].kind = "end"
           /\ block[ouf[k].line + 1].kind = "cont"
           /\ block[ouf[t].line + 1].kind = "text"


(************** the resolver without a discount, and SAMETIME ****************)

\* the entry is taxable with a tax table and has no discount: none at all, or one of
\* zero, which line 605 takes for none
Quoted(e) == e.taxable # 0 /\ e.taxtable # None /\ NoDiscount(e)

\* a and b are equal, or differ by one unit of the 28th digit of amounts below 10000
Near(a, b) ==
    \/ a = b
    \/ /\ DSub(a, b).dig = <<1>>
       /\ DSub(a, b).exp <= 4 - Prec

Sametime(e) ==
    /\ e.taxable # 0 /\ e.taxtable # None
    /\ e.discount # NoDec /\ e.discount_how = "SAMETIME" /\ ValidType(e)

\* the amount_taxes of the same entry resolved without its discount
TaxesUndiscounted(e) ==
    CalcTaxDiscount([e EXCEPT !.discount = NoDec, !.discount_type = None,
                              !.discount_how = None, !.amount_raw = NoDec,
                              !.amount_discount = NoDec, !.amount_net = NoDec,
                              !.amount_gross = NoDec, !.amount_taxes = NoDec,
                              !.warndiscount = FALSE], taxtables).entry.amount_taxes

\* the tax of the raw amount with the tax not included, resp. included
RefTaxesExcl(raw, t) == DAdd(DDiv(DMul(raw, t.percent_sum), D100), t.value_sum)
RefTaxesIncl(raw, t) == DSub(raw, RefRawNet(raw, t))

\* a and b are equal, or differ in the last digits of 28 only, for amounts below 10000
Close(a, b) ==
    \/ a = b
    \/ Len(DSub(a, b).dig) + DSub(a, b).exp <= 5 - Prec

WrittenAlone(c) ==
    LET iv    == heap[invoices[IntId(c.invoiceid)]]
        invc  == Invc(iv, options)
        lines == TemplateLines(Chosen(c.template, iv.owner, options.templates))
    IN  [n \in DOMAIN lines |->
            [line |-> n - 1,
             text |-> [k \in DOMAIN lines[n].text |->
                          IF ~IsPlaceholder(lines[n].text[k]) THEN lines[n].text[k]
                          ELSE IF Group1(lines[n].text[k]) \in DOMAIN invc
                          THEN invc[Group1(lines[n].text[k])]
                          ELSE Group1(lines[n].text[k])]]]

\* the call c raises when it is the only one
AloneRaises(c) ==
    \/ IntId(c.invoiceid) \notin DOMAIN invoices
    \/ Chosen(c.template, heap[invoices[IntId(c.invoiceid)]].owner,
              options.templates) = None

\* the call of the frame f has got as far as it would have got alone: it raised where
\* it raises alone, and what it has written so far are the first lines of what it
\* writes alone, all of them once its render returned
AsAlone(f) ==
    f.result # "idle" =>
        IF AloneRaises(f.call)
        THEN f.result = "GcinvoiceError" /\ f.ouf = <<>>
        ELSE /\ f.result = "rendering"
             /\ f.status \in {"new", "running", "returned"}
             /\ f.sink = Outf(Chosen(f.call.outfile,
                                     heap[invoices[IntId(f.call.invoiceid)]].owner,
                                     options.outfiles))
             /\ LET alone == WrittenAlone(f.call)
                IN  /\ Len(f.ouf) <= Len(alone)
                    /\ f.ouf = SubSeq(alone, 1, Len(f.ouf))
                    /\ f.status = "returned" => f.ouf = alone

\* what parse has stored and the options are left as they are, and a step of one
\* call leaves the locals of the other call as they are
Apart ==
    pc = "done" =>
        /\ UNCHANGED <<taxtables, heap, invoices, invoices_, entries, options>>
        /\ \/ previous' = previous
           \/ previous' = Frame /\ Frame' = previous

\* C27: once parse is through, two calls of createInvoice that write to different
\* files, their steps interleaved in any order, each raise or write what the call
\* raises or writes alone; no step of a call changes what parse has stored, the
\* options or the locals of the other call
C27_RendersApart ==
    /\ [](AsAlone(Frame) /\ AsAlone(previous))
    /\ [][Apart]_vars

\* both calls are under way at once, of the same invoice with different templates:
\* the running one has written the first of its two lines, the other one its line,
\* and neither has returned
C27_Witness ==
    /\ status = "running" /\ previous.status = "running"
    /\ call.invoiceid = previous.call.invoiceid
    /\ call.template = None /\ previous.call.template = "arg"
    /\ sink # previous.sink
    /\ Len(ouf) = 1 /\ Len(previous.ouf) = 1
    /\ heap[invoices[IntId(call.invoiceid)]].entries # <<>>
=============================================================================
